---- MODULE Spec2Model ----
(***************************************************************************)
(* Chart2CSV: the request handlers of api/main.py (mode arbitration        *)
(* between the vision-language extractor and the CV pipeline), the OCR     *)
(* cache of core/cache.py with its caller core/ocr.py, the response        *)
(* parsing of core/llm_extraction.py and the confidence formulas of the    *)
(* extraction stages.                                                      *)
(***************************************************************************)
EXTENDS Integers, Sequences, FiniteSets, TLC

VARIABLES
    \* ---- api/main.py ----
    requests,      \* rate_limiter.requests[client]: the timestamps granted
    granted,       \* the time of every grant to the client so far, in order
    now,           \* datetime.now(), in model ticks
    req,           \* the request last handled: endpoint and mode
    llmOut,        \* what extract_chart_llm gave that request (or none)
    cvOut,         \* what extract_chart gave that request (or none)
    calls,         \* the extractors the request invoked, in order
    warnings,      \* the warnings list of the request, in order
    resp,          \* the response of the request
    tempFile,      \* the request's temporary image file
    \* ---- core/cache.py, core/ocr.py and the extraction stages ----
    cacheFiles,    \* ~/.cache/chart2csv/ocr: the file of each backend+hash key
    call,          \* the most recent call of a core stage and what it gave
    stored,        \* per key, what the call that last wrote the entry returned
    first,         \* per key, what the call that first wrote an entry returned
    \* ---- core/cache.py called from several threads on one key ----
    disk,          \* the cache file of the key, as a sequence of cells
    wr,            \* each writer's position in save_to_cache
    lastWriter,    \* the writer whose write() reached the file last
    rd,            \* what the latest get_cached_result returned
    \* ---- core/llm_extraction.py ----
    llm            \* the latest extract_chart_llm call: response and outcome

apiVars == <<requests, granted, now, req, llmOut, cvOut, calls, warnings, resp, tempFile>>

coreVars == <<cacheFiles, call, stored, first>>

concVars == <<disk, wr, lastWriter, rd>>

llmVars == <<llm>>

vars == <<requests, granted, now, req, llmOut, cvOut, calls, warnings, resp, tempFile,
          cacheFiles, call, stored, first, disk, wr, lastWriter, rd, llm>>

-----------------------------------------------------------------------------
(* Bounds of the model *)

MaxPts == 2        \* most data points an extractor returns
MaxWarn == 2       \* most warnings a pipeline result carries

\* The largest payload of a concurrent writer, in cells, and the cells one
\* buffer of the output stream holds.
MaxCells == 3
BufferCells == 2

\* The longest response text, in tokens, of those enumerated exhaustively.
MaxLen == 5

\* The columns of the image a line is extracted from.
MaxColumns == 4

\* The last tick of the clock.
MaxNow == 2

\* The most contours an image of bars has.
MaxBars == 2

-----------------------------------------------------------------------------
(* api/main.py: rate limiter *)

requests_per_minute == 20

\* One minute, in ticks of the clock.
TicksPerMinute == 2

\* RateLimiter.is_allowed, lines 70-81: the pruned list, the verdict and the
\* list it leaves behind.
is_allowed_pruned(rs, t) == SelectSeq(rs, LAMBDA s : s > t - TicksPerMinute)

\* The verdict with the limit itself still granted.
is_allowed_AtLimit(rs, t) == Len(is_allowed_pruned(rs, t)) <= requests_per_minute

is_allowed(rs, t) == Len(is_allowed_pruned(rs, t)) < requests_per_minute

is_allowed_after(rs, t) ==
    IF is_allowed(rs, t)
    THEN Append(is_allowed_pruned(rs, t), t)
    ELSE is_allowed_pruned(rs, t)

-----------------------------------------------------------------------------
(* api/main.py: what the collaborators can give a request *)

NoLlm == [kind |-> "none", error |-> FALSE, ndata |-> 0,
          dictItems |-> TRUE, chartTypeStr |-> TRUE]

\* extract_chart_llm either raises (before its request) or returns a dict:
\* with or without an "error" key, with ndata entries under "data", whose
\* entries are or are not JSON objects and whose chart_type is or is not a
\* string (both are whatever the vision service wrote).
LlmOutcomes ==
    {[kind |-> "raise", error |-> FALSE, ndata |-> 0,
      dictItems |-> TRUE, chartTypeStr |-> TRUE]}
    \cup
    {[kind |-> "result", error |-> e, ndata |-> n,
      dictItems |-> d, chartTypeStr |-> c] :
        e \in BOOLEAN, n \in 0..MaxPts, d \in BOOLEAN, c \in BOOLEAN}

NoCv == [kind |-> "none", ndata |-> 0, nwarn |-> 0]

\* ChartType(chart_type) or Scale(x_scale) raised ValueError while the
\* arguments of extract_chart were built: the pipeline did not start.
BadArgs == [kind |-> "badargs", ndata |-> 0, nwarn |-> 0]

\* extract_chart (core/pipeline.py): a populated ChartResult with its
\* warnings, or an exception when no stage produced a usable result.
ExtractChartOutcomes ==
    {[kind |-> "raise", ndata |-> 0, nwarn |-> 0]}
    \cup
    {[kind |-> "result", ndata |-> n, nwarn |-> w] :
        n \in 1..MaxPts, w \in 0..MaxWarn}

NoResp == [kind |-> "none", ndata |-> 0, status |-> 0, detail |-> "",
           source |-> ""]

Success(src, n) ==
    [kind |-> "success", ndata |-> n, status |-> 200, detail |-> "",
     source |-> src]

HTTPException(code, why) ==
    [kind |-> "error", ndata |-> 0, status |-> code, detail |-> why,
     source |-> ""]

\* parse_csv_to_data, lines 138-158, on a CSV of nlines lines whose rows
\* have as many fields as the header: one dict per line after the header.
parse_csv_to_data(nlines) == IF nlines < 2 THEN 0 ELSE nlines - 1

\* lines 300-303 and 388-391: the header line and one line per point.
csv_lines(npoints) == 1 + npoints

\* line 309 and 394: one formatted warning per pipeline warning.
PipelineWarnings(n) == [i \in 1..n |-> "PIPELINE"]

-----------------------------------------------------------------------------
(* api/main.py: extract_data, the vision block, lines 249-287 *)

\* Mutant of line 250: the tuple names the wrong modes.
UsesVision_WrongModes(mode) == mode \in {"cv", "auto"}

\* line 250
UsesVision(mode) == mode \in {"llm", "auto"}

\* Mutant of line 254: the emptiness test of the data is dropped.
LlmAccepted_NoDataTest(r) == ~r.error

\* line 254
LlmAccepted(r) == ~r.error /\ r.ndata > 0

\* ExtractionResult, lines 37-45, as constructed at lines 262-270:
\* data: list[dict] and chart_type: str are validated.
ResponseValid(r) == r.dictItems /\ r.chartTypeStr

\* The exception raised inside the try of lines 251-280, if any: by
\* extract_chart_llm (252), by the response model (262) or the
\* HTTPException of line 273, which is an Exception too.
VisionRaises(mode, r) ==
    \/ r.kind = "raise"
    \/ r.kind = "result" /\ LlmAccepted(r) /\ ~ResponseValid(r)
    \/ r.kind = "result" /\ ~LlmAccepted(r) /\ mode = "llm"

\* Mutant of lines 281-287: the handler forgets the fallback warning.
VisionExcept_NoWarning(mode) ==
    IF mode = "llm"
    THEN [warnings |-> <<>>, resp |-> HTTPException(500, "LLM extraction error"),
          exit |-> "raise"]
    ELSE [warnings |-> <<>>, resp |-> NoResp, exit |-> "continue"]

\* Mutant of lines 281-287: the handler does not re-raise in llm mode.
VisionExcept_NoReraise(mode) ==
    [warnings |-> <<"LLM_FALLBACK">>, resp |-> NoResp, exit |-> "continue"]

\* lines 281-287
VisionExcept(mode) ==
    IF mode = "llm"
    THEN [warnings |-> <<>>, resp |-> HTTPException(500, "LLM extraction error"),
          exit |-> "raise"]
    ELSE [warnings |-> <<"LLM_FALLBACK">>, resp |-> NoResp,
          exit |-> "continue"]

\* lines 250-287: how the block is left (return, raise, continue), the
\* warnings so far and the response if it is left by return or raise.
VisionBlock(mode, r) ==
    IF ~UsesVision(mode)
    THEN [warnings |-> <<>>, resp |-> NoResp, exit |-> "continue"]
    ELSE IF VisionRaises(mode, r)
    THEN VisionExcept(mode)
    ELSE IF LlmAccepted(r)
    THEN [warnings |-> <<>>, resp |-> Success("llm", r.ndata),
          exit |-> "return"]
    ELSE [warnings |-> <<"LLM_FALLBACK">>, resp |-> NoResp,
          exit |-> "continue"]

\* lines 290-321 (and 379-406): the arguments are built first (ChartType(),
\* Scale() raise ValueError on an unknown token), then the pipeline runs.
CvBlock(paramsOk, cv, pre) ==
    IF ~paramsOk
    THEN [calls |-> <<>>, warnings |-> pre, resp |-> HTTPException(500, "Extraction failed"),
          cv |-> BadArgs]
    ELSE IF cv.kind = "raise"
    THEN [calls |-> <<"cv">>, warnings |-> pre, resp |-> HTTPException(500, "Extraction failed"),
          cv |-> cv]
    ELSE [calls |-> <<"cv">>, warnings |-> pre \o PipelineWarnings(cv.nwarn),
          resp |-> Success("cv", parse_csv_to_data(csv_lines(cv.ndata))),
          cv |-> cv]

\* lines 246-327: the inner try of extract_data.
ExtractInner(mode, r, paramsOk, cv) ==
    LET v == VisionBlock(mode, r)
        c == CvBlock(paramsOk, cv, v.warnings)
    IN  IF v.exit = "continue"
        THEN [calls |-> (IF UsesVision(mode) THEN <<"llm">> ELSE <<>>) \o c.calls,
              warnings |-> c.warnings, resp |-> c.resp,
              llm |-> (IF UsesVision(mode) THEN r ELSE NoLlm), cv |-> c.cv]
        ELSE [calls |-> <<"llm">>, warnings |-> v.warnings, resp |-> v.resp,
              llm |-> r, cv |-> NoCv]

\* mode is a free string (line 186); every value other than "llm" and "auto"
\* takes the path of "cv".
Modes == {"llm", "cv", "auto", "other"}

\* What happens before the inner try, lines 224-244 (and 362-376).
Prefixes == {"ok", "bad_content_type", "too_large", "open_fails", "save_fails"}

\* The response of a request that ends before the inner try.
PrefixResp(p) ==
    CASE p = "bad_content_type" -> HTTPException(400, "Invalid file type")
      [] p = "too_large" -> HTTPException(400, "File too large")
      [] OTHER -> HTTPException(500, "Extraction failed")

\* image_to_temp_path, lines 126-135: Image.open raises before the file is
\* created, img.save after; lines 323-327 delete the file that the inner
\* try was entered with.
TempFileAfter(p) ==
    CASE p = "ok" -> "deleted"
      [] p = "save_fails" -> "exists"
      [] OTHER -> "none"

\* POST /extract, lines 183-335, for requests with the given modes, with
\* the given ends before the inner try and the given collaborator outcomes.
ExtractData(modes, prefixes, llms, cvs) ==
    \E mode \in modes :
        /\ UNCHANGED <<coreVars, concVars, llmVars>>
        /\ requests' = is_allowed_after(requests, now)
        /\ granted' = IF is_allowed(requests, now) THEN Append(granted, now) ELSE granted
        /\ now' = now
        /\ req' = [mode |-> mode, endpoint |-> "extract"]
        /\ IF ~is_allowed(requests, now)
           THEN /\ resp' = HTTPException(429, "Rate limit exceeded")
                /\ llmOut' = NoLlm /\ cvOut' = NoCv
                /\ calls' = <<>> /\ warnings' = <<>> /\ tempFile' = "none"
           ELSE \E p \in prefixes :
                IF p # "ok"
                THEN /\ resp' = PrefixResp(p)
                     /\ llmOut' = NoLlm /\ cvOut' = NoCv
                     /\ calls' = <<>> /\ warnings' = <<>>
                     /\ tempFile' = TempFileAfter(p)
                ELSE \E r \in (IF UsesVision(mode) THEN llms ELSE {NoLlm}) :
                     \E paramsOk \in (IF VisionBlock(mode, r).exit = "continue"
                                      THEN BOOLEAN ELSE {TRUE}) :
                     \E cv \in (IF VisionBlock(mode, r).exit = "continue" /\ paramsOk
                                THEN cvs ELSE {NoCv}) :
                        LET out == ExtractInner(mode, r, paramsOk, cv)
                        IN  /\ resp' = out.resp
                            /\ llmOut' = out.llm
                            /\ cvOut' = out.cv
                            /\ calls' = out.calls
                            /\ warnings' = out.warnings
                            /\ tempFile' = TempFileAfter(p)

extract_data == ExtractData(Modes, Prefixes, LlmOutcomes, ExtractChartOutcomes)

\* POST /extract/base64, lines 338-419: no vision block; b64decode may
\* raise, which ends the request like a failure to open the image.
Base64Prefixes == {"ok", "too_large", "open_fails", "save_fails"}

ExtractDataBase64(prefixes, cvs) ==
    /\ UNCHANGED <<coreVars, concVars, llmVars>>
    /\ requests' = is_allowed_after(requests, now)
    /\ granted' = IF is_allowed(requests, now) THEN Append(granted, now) ELSE granted
    /\ now' = now
    /\ req' = [mode |-> "cv", endpoint |-> "base64"]
    /\ IF ~is_allowed(requests, now)
       THEN /\ resp' = HTTPException(429, "Rate limit exceeded")
            /\ llmOut' = NoLlm /\ cvOut' = NoCv
            /\ calls' = <<>> /\ warnings' = <<>> /\ tempFile' = "none"
       ELSE \E p \in prefixes :
            IF p # "ok"
            THEN /\ resp' = PrefixResp(p)
                 /\ llmOut' = NoLlm /\ cvOut' = NoCv
                 /\ calls' = <<>> /\ warnings' = <<>>
                 /\ tempFile' = TempFileAfter(p)
            ELSE \E paramsOk \in BOOLEAN :
                 \E cv \in (IF paramsOk THEN cvs ELSE {NoCv}) :
                    LET c == CvBlock(paramsOk, cv, <<>>)
                    IN  /\ resp' = c.resp
                        /\ llmOut' = NoLlm
                        /\ cvOut' = c.cv
                        /\ calls' = c.calls
                        /\ warnings' = c.warnings
                        /\ tempFile' = TempFileAfter(p)

extract_data_base64 == ExtractDataBase64(Base64Prefixes, ExtractChartOutcomes)

\* The requests of one client as time passes: the clock moves on between
\* requests, up to MaxNow ticks.
Tick ==
    /\ now < MaxNow
    /\ now' = now + 1
    /\ UNCHANGED <<requests, granted, req, llmOut, cvOut, calls, warnings, resp, tempFile>>
    /\ UNCHANGED <<coreVars, concVars, llmVars>>

RateModes == {"llm", "cv"}

RatePrefixes == {"ok", "too_large"}

RateLlm == {r \in LlmOutcomes : r.kind = "raise" \/ (LlmAccepted(r) /\ ResponseValid(r) /\ r.ndata = 1)}

RateCv == {c \in ExtractChartOutcomes : c.kind = "raise" \/ (c.ndata = 1 /\ c.nwarn = 0)}

ExtractDataRate == ExtractData(RateModes, RatePrefixes, RateLlm, RateCv)

ExtractDataBase64Rate == ExtractDataBase64(RatePrefixes, RateCv)

-----------------------------------------------------------------------------
(* core/ocr.py and core/cache.py: data *)

\* A decoded image: its content (what compute_image_hash digests) and shape.
Images ==
    {[w |-> 200, id |-> "imgA", h |-> 100],
     [w |-> 200, id |-> "imgB", h |-> 100]}

\* axes = {"x": row of the x axis, "y": column of the y axis}. With the
\* second one the label windows below the x axis and left of the y axis
\* are empty.
AxesSet == {[x |-> 50, y |-> 40], [x |-> 96, y |-> 3]}

NoAxes == [x |-> 0, y |-> 0]

Backends == {"tesseract", "mistral"}

\* compute_image_hash, cache.py lines 22-28: a digest of the pixel bytes.
compute_image_hash(image) == image.id

\* cache.py lines 44 and 72: f"{backend}_{image_hash}.json"
cache_file(backend, image) == <<backend, compute_image_hash(image)>>

CacheKeys == {cache_file(b, i) : b \in Backends, i \in Images}

EmptyTicks == [x |-> <<>>, y |-> <<>>]

\* No values read for either axis.
NoValues == [x |-> <<>>, y |-> <<>>]

Zero == <<0, 1>>      \* the confidence 0.0, as numerator and denominator

\* What a cache file holds. "entry" is what save_to_cache writes; the other
\* kinds are files that are missing, unreadable or not an entry.
AbsentFile ==
    [kind |-> "absent", backend |-> "", result |-> EmptyTicks, confidence |-> Zero]

BrokenFile(k) ==
    [kind |-> k, backend |-> "", result |-> EmptyTicks, confidence |-> Zero]

BrokenKinds ==
    {"unreadable", "invalid_json", "truncated", "nontext", "json_falsy",
     "json_no_fields"}

\* cache.py lines 74-82: json.dump of cache_data.
json_dump(result, confidence, backend) ==
    [kind |-> "entry", backend |-> backend, result |-> result,
     confidence |-> confidence]

Faults == {"none", "mkdir", "open", "serialize", "write"}

\* get_cache_dir, cache.py lines 15-19: mkdir raises OSError when the
\* directory cannot be created.
get_cache_dir_raises(flt) == flt = "mkdir"

\* get_cached_result, cache.py lines 31-52. get_cache_dir is called outside
\* the try; open() raising IOError and json.load raising JSONDecodeError give
\* None; the UnicodeDecodeError of a file that is not text is neither.
get_cached_result(file, flt) ==
    IF get_cache_dir_raises(flt)
    THEN [raised |-> TRUE, exc |-> "OSError", none |-> TRUE, json |-> AbsentFile]
    ELSE IF file.kind = "absent"
    THEN [raised |-> FALSE, exc |-> "", none |-> TRUE, json |-> AbsentFile]
    ELSE IF flt = "open" \/ file.kind \in {"unreadable", "invalid_json", "truncated"}
    THEN [raised |-> FALSE, exc |-> "", none |-> TRUE, json |-> AbsentFile]
    ELSE IF file.kind = "nontext"
    THEN [raised |-> TRUE, exc |-> "UnicodeDecodeError", none |-> TRUE,
          json |-> AbsentFile]
    ELSE [raised |-> FALSE, exc |-> "", none |-> FALSE, json |-> file]

\* save_to_cache, cache.py lines 55-84: whether it raises and the file it
\* leaves. get_cache_dir is called outside the try; only IOError is caught,
\* so the TypeError of json.dump propagates; open(.., "w") has truncated the
\* file by the time json.dump or the write fails.
save_to_cache(file, result, confidence, backend, flt) ==
    IF get_cache_dir_raises(flt)
    THEN [file |-> file, raised |-> TRUE, exc |-> "OSError"]
    ELSE IF flt = "open"
    THEN [file |-> file, raised |-> FALSE, exc |-> ""]
    ELSE IF flt = "serialize"
    THEN [file |-> BrokenFile("truncated"), raised |-> TRUE, exc |-> "TypeError"]
    ELSE IF flt = "write"
    THEN [file |-> BrokenFile("truncated"), raised |-> FALSE, exc |-> ""]
    ELSE [file |-> json_dump(result, confidence, backend), raised |-> FALSE,
          exc |-> ""]

-----------------------------------------------------------------------------
(* core/ocr.py: recognition *)

RECURSIVE Insert(_, _)
Insert(x, s) ==
    IF s = <<>> THEN <<x>>
    ELSE IF x <= Head(s) THEN <<x>> \o s
    ELSE <<Head(s)>> \o Insert(x, Tail(s))

RECURSIVE sorted(_)
sorted(s) == IF s = <<>> THEN <<>> ELSE Insert(Head(s), sorted(Tail(s)))

Min(a, b) == IF a <= b THEN a ELSE b
Max(a, b) == IF a >= b THEN a ELSE b

\* detect_ticks (core/detection.py): the tick pixels found on each axis, the
\* same for the same image and axes.
detect_ticks(image, axes) ==
    IF image.id = "imgA" /\ axes.x = 50 THEN [x |-> <<150, 50>>, y |-> <<80, 20>>]
    ELSE IF image.id = "imgA" THEN [x |-> <<50>>, y |-> <<20>>]
    ELSE IF axes.x = 50 THEN [x |-> <<60>>, y |-> <<30>>]
    ELSE [x |-> <<>>, y |-> <<>>]

\* pytesseract.image_to_string on the window of a tick: the text printed
\* there, the same whenever the same window of the same image is read.
image_to_string(image, px) ==
    IF image.id = "imgB" THEN "5"
    ELSE IF px < 100 THEN "-3" ELSE "abc"

\* parse_number, ocr.py lines 204-232: the first numeric token, or None.
parse_number(text) ==
    IF text = "5" THEN [ok |-> TRUE, val |-> 5]
    ELSE IF text = "-3" THEN [ok |-> TRUE, val |-> -3]
    ELSE [ok |-> FALSE, val |-> 0]

\* ocr.py lines 163-169: the window below an x tick is empty or not.
x_region_empty(image, axes, px) ==
    \/ Max(0, px - 30) >= Min(image.w, px + 30)
    \/ axes.x + 5 >= Min(image.h, axes.x + 40)

\* ocr.py lines 182-188: the window left of a y tick.
y_region_empty(image, axes, py) ==
    \/ Max(0, axes.y - 60) >= Max(0, axes.y - 5)
    \/ Max(0, py - 15) >= Min(image.h, py + 15)

\* ocr.py lines 161-178 and 180-197: one axis of _extract_with_tesseract.
\* An empty window is skipped before it is counted.
RECURSIVE tesseract_axis(_, _, _, _)
tesseract_axis(image, axes, axis, pixels) ==
    IF pixels = <<>> THEN [ticks |-> <<>>, found |-> 0, parsed |-> 0]
    ELSE LET p == Head(pixels)
             rest == tesseract_axis(image, axes, axis, Tail(pixels))
             empty == IF axis = "x" THEN x_region_empty(image, axes, p)
                      ELSE y_region_empty(image, axes, p)
             text == image_to_string(image, p)
             val == parse_number(text)
         IN  IF empty THEN rest
             ELSE IF val.ok
             THEN [ticks |-> <<[text |-> text, pixel |-> p, value |-> val.val]>>
                             \o rest.ticks,
                   found |-> rest.found + 1, parsed |-> rest.parsed + 1]
             ELSE [ticks |-> rest.ticks, found |-> rest.found + 1,
                   parsed |-> rest.parsed]

\* _extract_with_tesseract, ocr.py lines 144-201.
extract_with_tesseract(image, axes, ticks) ==
    LET ax == tesseract_axis(image, axes, "x", ticks.x)
        ay == tesseract_axis(image, axes, "y", ticks.y)
        total_found == ax.found + ay.found
        total_parsed == ax.parsed + ay.parsed
    IN  [result |-> [x |-> ax.ticks, y |-> ay.ticks],
         conf |-> IF total_found > 0 THEN <<total_parsed, total_found>> ELSE Zero,
         remote |-> 0,
         ocr |-> total_found,
         sent |-> <<>>,
         values |-> NoValues]

\* What the remote service does in a run: the batched request succeeds or
\* fails, each individual request succeeds or fails, and the numbers read
\* from each strip.
RemoteScenarios ==
    {[batch |-> "ok", ix |-> "ok", iy |-> "ok", xv |-> <<0, 10>>, yv |-> <<7>>],
     [batch |-> "ok", ix |-> "ok", iy |-> "ok", xv |-> <<1>>, yv |-> <<3, 2, 1>>],
     [batch |-> "fail", ix |-> "ok", iy |-> "fail", xv |-> <<0, 10>>, yv |-> <<7>>],
     [batch |-> "fail", ix |-> "fail", iy |-> "fail", xv |-> <<>>, yv |-> <<>>]}

\* A request sent to the remote service: the batched one or the one for the
\* strip of an axis, and whether it was answered with numbers.
Request(strip, ok) == [ok |-> ok = "ok", strip |-> strip]

\* What a backend returns that sent nothing.
NotSent == [sent |-> <<>>, values |-> <<>>]

\* The remote service answers no request.
NoAnswer == [batch |-> "fail", ix |-> "fail", iy |-> "fail", xv |-> <<>>, yv |-> <<>>]

\* extract_numbers_from_mistral, mistral_ocr.py lines 38-82: one request;
\* its failure gives [].
extract_numbers_from_mistral(axis, ok, values) ==
    [sent |-> <<Request(axis, ok)>>, values |-> IF ok = "ok" THEN values ELSE <<>>]

\* MistralOCRBackend.process_axis_strip, mistral_ocr.py lines 115-119.
process_axis_strip(avail, axis, ok, values) ==
    IF ~avail THEN NotSent ELSE extract_numbers_from_mistral(axis, ok, values)

\* The except branch entered after an answered batch request as well.
process_both_axes_AlwaysFallback(avail, rm) ==
    IF ~avail
    THEN [x |-> <<>>, y |-> <<>>, sent |-> <<>>]
    ELSE LET gx == extract_numbers_from_mistral("x", rm.ix, rm.xv)
             gy == extract_numbers_from_mistral("y", rm.iy, rm.yv)
         IN  [x |-> gx.values, y |-> gy.values,
              sent |-> <<Request("batch", rm.batch)>> \o gx.sent \o gy.sent]

\* MistralOCRBackend.process_both_axes, mistral_ocr.py lines 121-189: nothing
\* without a client; else the batched request, and in its except branch one
\* request for each strip.
process_both_axes(avail, rm) ==
    IF ~avail
    THEN [x |-> <<>>, y |-> <<>>, sent |-> <<>>]
    ELSE IF rm.batch = "ok"
    THEN [x |-> rm.xv, y |-> rm.yv, sent |-> <<Request("batch", rm.batch)>>]
    ELSE LET gx == extract_numbers_from_mistral("x", rm.ix, rm.xv)
             gy == extract_numbers_from_mistral("y", rm.iy, rm.yv)
         IN  [x |-> gx.values, y |-> gy.values,
              sent |-> <<Request("batch", rm.batch)>> \o gx.sent \o gy.sent]

\* ocr.py lines 105-111: the two axis strips are empty or not.
x_strip_empty(image, axes) == axes.x + 5 >= Min(image.h, axes.x + 60)
y_strip_empty(image, axes) == Max(0, axes.y - 80) >= Max(0, axes.y - 5)

\* ocr.py lines 113-118: the values read for each axis.
mistral_values(image, axes, avail, rm) ==
    IF ~x_strip_empty(image, axes) /\ ~y_strip_empty(image, axes)
    THEN process_both_axes(avail, rm)
    ELSE LET gx == IF ~x_strip_empty(image, axes)
                   THEN process_axis_strip(avail, "x", rm.ix, rm.xv)
                   ELSE NotSent
             gy == IF ~y_strip_empty(image, axes)
                   THEN process_axis_strip(avail, "y", rm.iy, rm.yv)
                   ELSE NotSent
         IN  [x |-> gx.values, y |-> gy.values, sent |-> gx.sent \o gy.sent]

\* The i-th value given to the i-th detected tick in the order of detection.
align_Unsorted(detected, values) ==
    [i \in 1..Min(Len(detected), Len(values)) |->
        [text |-> ToString(values[i]), pixel |-> detected[i],
         value |-> values[i]]]

\* ocr.py lines 120-126 and 128-134: the i-th value goes to the i-th
\* smallest detected tick.
align(detected, values) ==
    [i \in 1..Min(Len(detected), Len(values)) |->
        [text |-> ToString(values[i]), pixel |-> sorted(detected)[i],
         value |-> values[i]]]

\* The confidence with the x ticks alone as the total.
mistral_confidence_XTicksOnly(ticks, tx, ty) ==
    IF Len(ticks.x) + Len(ticks.y) > 0
    THEN <<Len(tx) + Len(ty), Len(ticks.x)>>
    ELSE Zero

\* ocr.py lines 136-140
mistral_confidence(ticks, tx, ty) ==
    IF Len(ticks.x) + Len(ticks.y) > 0
    THEN <<Len(tx) + Len(ty), Len(ticks.x) + Len(ticks.y)>>
    ELSE Zero

\* _extract_with_mistral, ocr.py lines 92-141.
extract_with_mistral(image, axes, ticks, avail, rm) ==
    LET got == mistral_values(image, axes, avail, rm)
        tx == align(ticks.x, got.x)
        ty == align(ticks.y, got.y)
    IN  [result |-> [x |-> tx, y |-> ty],
         conf |-> mistral_confidence(ticks, tx, ty),
         remote |-> Len(got.sent),
         ocr |-> 0,
         sent |-> got.sent,
         values |-> [x |-> got.x, y |-> got.y]]

-----------------------------------------------------------------------------
(* core/transform.py: the pixel-to-data transform *)

\* Exact fractions <<numerator, denominator>>; a denominator of 0 stands for
\* a float that is not finite (inf or nan).
Abs(x) == IF x < 0 THEN -x ELSE x

RECURSIVE GCD(_, _)
GCD(a, b) == IF b = 0 THEN a ELSE GCD(b, a % b)

NotFinite == <<1, 0>>

Finite(q) == q[2] # 0

Rat(n, d) ==
    IF d = 0 THEN NotFinite
    ELSE LET g == GCD(Abs(n), Abs(d))
             s == IF d < 0 THEN -1 ELSE 1
         IN  <<(s * n) \div g, Abs(d) \div g>>

RatAdd(p, q) == Rat(p[1] * q[2] + q[1] * p[2], p[2] * q[2])
RatSub(p, q) == Rat(p[1] * q[2] - q[1] * p[2], p[2] * q[2])
RatMul(p, q) == Rat(p[1] * q[1], p[2] * q[2])
RatDiv(p, q) == Rat(p[1] * q[2], p[2] * q[1])
RatAbs(q) == <<Abs(q[1]), q[2]>>
RatLe(p, q) == p[1] * q[2] <= q[1] * p[2]
RatEq(p, q) == Finite(p) /\ Finite(q) /\ p[1] * q[2] = q[1] * p[2]
Int2Rat(n) == <<n, 1>>

RECURSIVE RatSum(_)
RatSum(qs) == IF qs = <<>> THEN Zero ELSE RatAdd(Head(qs), RatSum(Tail(qs)))

\* The values whose decimal logarithm is a whole number, and that logarithm.
PowersOfTen == {1, 10, 100}

log10(v) == CASE v = 1 -> 0 [] v = 10 -> 1 [] v = 100 -> 2

\* Values an axis on the log scale is calibrated with: the powers of ten
\* and the values that have no logarithm.
LogValues == PowersOfTen \cup {0, -10}

\* transform.py lines 122-123: the logarithm of a calibration value, 0 for a
\* value that has none.
log_val(v) == IF v > 0 THEN log10(v) ELSE 0

\* transform.py lines 63-64: the logarithm of a tick value clipped from
\* below at 1e-10.
log_clipped(v) == IF v > 0 THEN log10(v) ELSE -10

\* The identity mapping of an axis, transform.py line 54.
IdentityAxis == [b |-> Zero, a |-> <<1, 1>>, scale |-> "linear"]

NoTransform ==
    [x |-> IdentityAxis, y |-> IdentityAxis, path |-> "",
     fit_error |-> Zero, fitted |-> {}]

\* A mapping from axis names to point lists, or None: the keys it has and
\* the list under each (empty under a key it does not have).
NoneMap == [x |-> <<>>, y |-> <<>>, none |-> TRUE, keys |-> {}]

EmptyMap == [x |-> <<>>, y |-> <<>>, none |-> FALSE, keys |-> {}]

Mapping(xs, ys) == [x |-> xs, y |-> ys, none |-> FALSE, keys |-> {"x", "y"}]

\* dict.get(axis, []), transform.py lines 51 and 107.
get(mapping, axis) == IF axis = "x" THEN mapping.x ELSE mapping.y

\* The truth value of a mapping, transform.py lines 30 and 33.
truthy(mapping) == ~mapping.none /\ mapping.keys # {}

\* What apply_transform returned for one row, and the row.
NoApplied ==
    [x |-> [v |-> Zero, scale |-> "linear"], y |-> [v |-> Zero, scale |-> "linear"],
     at |-> <<0, 0>>]

NoBuild ==
    [ticks |-> NoneMap, calibration_points |-> NoneMap,
     x_scale |-> "linear", y_scale |-> "linear"]

\* The coefficients with the first value taken for the intercept.
calibration_axis_NoIntercept(points, scale) ==
    IF Len(points) < 2
    THEN [exc |-> "ValueError", axis |-> IdentityAxis]
    ELSE LET t1 == IF scale = "linear" THEN points[1][2] ELSE log_val(points[1][2])
             t2 == IF scale = "linear" THEN points[2][2] ELSE log_val(points[2][2])
         IN  IF points[2][1] = points[1][1]
             THEN [exc |-> "ZeroDivisionError", axis |-> IdentityAxis]
             ELSE [exc |-> "",
                   axis |-> [b |-> Int2Rat(t1),
                             a |-> Rat(t2 - t1, points[2][1] - points[1][1]), scale |-> scale]]

\* transform.py lines 107-131 for one axis: the coefficients from the first
\* two calibration points, or the exception raised.
calibration_axis(points, scale) ==
    IF Len(points) < 2
    THEN [exc |-> "ValueError", axis |-> IdentityAxis]
    ELSE LET px1 == points[1][1]
             val1 == points[1][2]
             px2 == points[2][1]
             val2 == points[2][2]
             t1 == IF scale = "linear" THEN val1 ELSE log_val(val1)
             t2 == IF scale = "linear" THEN val2 ELSE log_val(val2)
             \* numpy's log10 returns a numpy float, whose division by zero
             \* gives inf or nan; Python's own numbers raise.
             numpy == scale = "log" /\ (val1 > 0 \/ val2 > 0)
         IN  IF px2 = px1 /\ ~numpy
             THEN [exc |-> "ZeroDivisionError", axis |-> IdentityAxis]
             ELSE LET a == Rat(t2 - t1, px2 - px1)
                      b == IF Finite(a)
                           THEN RatSub(Int2Rat(t1), RatMul(a, Int2Rat(px1)))
                           ELSE NotFinite
                  IN  [exc |-> "", axis |-> [b |-> b, a |-> a, scale |-> scale]]

\* _build_from_calibration, transform.py lines 92-136: the x axis is built
\* before the y axis, and the first exception ends the call.
build_from_calibration(calibration_points, x_scale, y_scale) ==
    LET x == calibration_axis(get(calibration_points, "x"), x_scale)
        y == calibration_axis(get(calibration_points, "y"), y_scale)
    IN  IF x.exc # "" THEN [exc |-> x.exc, transform |-> NoTransform]
        ELSE IF y.exc # "" THEN [exc |-> y.exc, transform |-> NoTransform]
        ELSE [exc |-> "",
              transform |-> [x |-> x.axis, y |-> y.axis, path |-> "calibration",
                             fit_error |-> Zero, fitted |-> {}]]

\* The targets a fit is made to, transform.py lines 61-66.
RECURSIVE targets(_, _)
targets(points, scale) ==
    IF points = <<>> THEN <<>>
    ELSE <<IF scale = "log" THEN log_clipped(Head(points)[2]) ELSE Head(points)[2]>>
         \o targets(Tail(points), scale)

RECURSIVE IntSum(_)
IntSum(s) == IF s = <<>> THEN 0 ELSE Head(s) + IntSum(Tail(s))

\* np.polyfit(pixels, target_values, 1), transform.py line 70: the least
\* squares line through ticks at two or more different pixels.
polyfit(pixels, ts) ==
    LET n == Len(pixels)
        Sp == IntSum(pixels)
        St == IntSum(ts)
        Spp == IntSum([i \in 1..n |-> pixels[i] * pixels[i]])
        Spt == IntSum([i \in 1..n |-> pixels[i] * ts[i]])
        D == n * Spp - Sp * Sp
        A == n * Spt - Sp * St
    IN  [b |-> Rat(St * D - A * Sp, n * D), a |-> Rat(A, D)]

\* transform.py lines 73-76: the mean absolute residual of a fit, divided
\* by the mean absolute target when that is positive.
axis_error(pixels, ts, fit) ==
    LET n == Len(pixels)
        resid == [i \in 1..n |->
                    RatAbs(RatSub(RatAdd(RatMul(fit.a, Int2Rat(pixels[i])), fit.b),
                                  Int2Rat(ts[i])))]
        error == RatDiv(RatSum(resid), Int2Rat(n))
        mean_val == Rat(IntSum([i \in 1..n |-> Abs(ts[i])]), n)
    IN  IF mean_val[1] > 0 THEN RatDiv(error, mean_val) ELSE error

\* The same with the requested scale kept on an axis that is not fitted.
ticks_axis_KeepsScale(points, scale) ==
    IF Len(points) < 2
    THEN [error |-> Zero, axis |-> [b |-> Zero, a |-> <<1, 1>>, scale |-> scale],
          fitted |-> FALSE]
    ELSE LET pixels == [i \in 1..Len(points) |-> points[i][1]]
             ts == targets(points, scale)
             fit == polyfit(pixels, ts)
         IN  [error |-> axis_error(pixels, ts, fit), axis |-> [b |-> fit.b, a |-> fit.a, scale |-> scale],
              fitted |-> TRUE]

\* transform.py lines 51-85 for one axis: the identity for fewer than two
\* ticks, else the fitted line and its error.
ticks_axis(points, scale) ==
    IF Len(points) < 2
    THEN [error |-> Zero, axis |-> IdentityAxis, fitted |-> FALSE]
    ELSE LET pixels == [i \in 1..Len(points) |-> points[i][1]]
             ts == targets(points, scale)
             fit == polyfit(pixels, ts)
         IN  [error |-> axis_error(pixels, ts, fit), axis |-> [b |-> fit.b, a |-> fit.a, scale |-> scale],
              fitted |-> TRUE]

\* _build_from_ticks, transform.py lines 40-89.
build_from_ticks(ticks, x_scale, y_scale) ==
    LET x == ticks_axis(get(ticks, "x"), x_scale)
        y == ticks_axis(get(ticks, "y"), y_scale)
        fitted == {ax \in {"x", "y"} : IF ax = "x" THEN x.fitted ELSE y.fitted}
        total == RatAdd(IF x.fitted THEN x.error ELSE Zero,
                        IF y.fitted THEN y.error ELSE Zero)
        avg_error == IF fitted # {}
                     THEN RatDiv(total, Int2Rat(Cardinality(fitted)))
                     ELSE Zero
    IN  [exc |-> "",
         transform |-> [x |-> x.axis, y |-> y.axis, path |-> "ticks",
                        fit_error |-> avg_error, fitted |-> fitted]]

\* build_transform, transform.py lines 10-37.
build_transform(ticks, calibration_points, x_scale, y_scale) ==
    IF truthy(calibration_points)
    THEN build_from_calibration(calibration_points, x_scale, y_scale)
    ELSE IF truthy(ticks)
    THEN build_from_ticks(ticks, x_scale, y_scale)
    ELSE [exc |-> "ValueError", transform |-> NoTransform]

\* apply_transform on one coordinate, transform.py lines 156-165: the value
\* on a linear axis, and on a log axis the exponent of ten of the value.
apply_axis(axis, pixel) ==
    [v |-> IF Finite(axis.a) /\ Finite(axis.b)
           THEN RatAdd(RatMul(axis.a, Int2Rat(pixel)), axis.b)
           ELSE NotFinite,
     scale |-> axis.scale]

\* A transformed coordinate is the value v.
IsValue(out, v) ==
    IF out.scale = "linear" THEN RatEq(out.v, Int2Rat(v))
    ELSE v \in PowersOfTen /\ RatEq(out.v, Int2Rat(log10(v)))

-----------------------------------------------------------------------------
(* core/ocr.py: extract_tick_labels *)

\* The arguments of an extract_scatter_points call, what each strategy finds
\* in the image, and what the call returned.
NoScatterCall ==
    [out |-> [n |-> 0, conf |-> <<1, 10>>, from |-> "none", blob_called |-> FALSE], method |-> "",
     color |-> [n |-> 0, conf |-> <<1, 10>>],
     blob |-> [n |-> 0, conf |-> <<1, 10>>]]

NoCall ==
    [why |-> "", image |-> "", result |-> EmptyTicks, flt |-> "",
     exc |-> "", axes |-> NoAxes, ticks |-> EmptyTicks, found |-> "",
     conf |-> Zero, remote |-> 0, ocr |-> 0, sent |-> <<>>, values |-> NoValues,
     avail |-> FALSE, rm |-> NoAnswer, name |-> "none",
     use_mistral |-> FALSE, use_cache |-> FALSE, outcome |-> "none", hit |-> FALSE,
     detect |-> FALSE, backend_name |-> "", dims |-> <<0, 0>>, margin |-> 0,
     box |-> <<0, 0, 0, 0>>, via |-> "", contour_called |-> FALSE,
     tin |-> NoBuild,
     tout |-> NoTransform, applied |-> NoApplied, scatter |-> NoScatterCall,
     finds |-> [small |-> 0, large |-> 0, big |-> 12, x_range |-> 0, y_range |-> 0],
     bars |-> [points |-> <<>>, contours |-> <<>>, crop |-> [given |-> FALSE, x1 |-> 0, y1 |-> 0]]]

\* ocr.py line 43
requested_backend(use_mistral) == IF use_mistral THEN "mistral" ELSE "tesseract"

\* A lookup whose result is never taken for a hit.
cached_truthy_Never(got) == FALSE

\* ocr.py line 48: the truth value of what get_cached_result returned.
cached_truthy(got) == ~got.none /\ got.json.kind # "json_falsy"

\* ocr.py lines 51-57: the backend that recognizes, after the fallback to
\* the local engine when the remote one is not available.
effective_mistral(use_mistral, env) == use_mistral /\ env.avail

\* The result saved whether or not the cache is in use.
save_wanted_Always(use_cache) == TRUE

\* ocr.py line 81: the result is saved when the cache is in use.
save_wanted(use_cache) == use_cache

\* The result saved under the backend that was asked for.
save_backend_Requested(use_mistral, env) == requested_backend(use_mistral)

\* ocr.py lines 80-87: the key the result is saved under.
save_backend(use_mistral, env) == requested_backend(effective_mistral(use_mistral, env))

\* ocr.py lines 20-89: the call record, the cache files and the record of
\* stored results the call leaves.
extract_tick_labels(image, axes, use_mistral, use_cache, env, files, flt) ==
    LET key == cache_file(requested_backend(use_mistral), image)
        base == [NoCall EXCEPT !.name = "extract_tick_labels", !.image = image.id,
                               !.axes = axes, !.use_mistral = use_mistral,
                               !.use_cache = use_cache,
                               !.backend_name = requested_backend(use_mistral),
                               !.found = (IF use_cache THEN files[key].kind ELSE ""),
                               !.flt = flt,
                               !.avail = use_mistral /\ env.avail,
                               !.rm = env.rm]
        got == get_cached_result(files[key], flt)
        mistral == effective_mistral(use_mistral, env)
        ticks == detect_ticks(image, axes)
        rec == IF mistral
               THEN extract_with_mistral(image, axes, ticks, env.avail, env.rm)
               ELSE extract_with_tesseract(image, axes, ticks)
        skey == cache_file(save_backend(use_mistral, env), image)
        saved == save_to_cache(files[skey], rec.result, rec.conf,
                               save_backend(use_mistral, env), flt)
        fresh == [base EXCEPT !.outcome = "returned", !.result = rec.result,
                              !.conf = rec.conf, !.detect = TRUE,
                              !.remote = rec.remote, !.ocr = rec.ocr,
                              !.ticks = ticks, !.sent = rec.sent,
                              !.values = rec.values,
                              !.backend_name = save_backend(use_mistral, env)]
    IN  IF use_cache /\ got.raised
        THEN [call |-> [base EXCEPT !.outcome = "raised", !.exc = got.exc],
              files |-> files, key |-> key, wrote |-> FALSE]
        ELSE IF use_cache /\ cached_truthy(got)
        THEN IF got.json.kind = "entry"
             THEN [call |-> [base EXCEPT !.outcome = "returned", !.hit = TRUE,
                                         !.result = got.json.result,
                                         !.conf = got.json.confidence],
                   files |-> files, key |-> key, wrote |-> FALSE]
             ELSE [call |-> [base EXCEPT !.outcome = "raised", !.exc = "KeyError"],
                   files |-> files, key |-> key, wrote |-> FALSE]
        ELSE IF ~mistral /\ ~env.tess
        THEN [call |-> [base EXCEPT !.outcome = "raised", !.exc = "ImportError",
                                    !.backend_name = save_backend(use_mistral, env)],
              files |-> files, key |-> key, wrote |-> FALSE]
        ELSE IF ~save_wanted(use_cache)
        THEN [call |-> fresh, files |-> files, key |-> skey, wrote |-> FALSE]
        ELSE IF saved.raised
        THEN [call |-> [fresh EXCEPT !.outcome = "raised", !.exc = saved.exc,
                                     !.result = EmptyTicks, !.conf = Zero],
              files |-> [files EXCEPT ![skey] = saved.file],
              key |-> skey, wrote |-> FALSE]
        ELSE [call |-> fresh,
              files |-> [files EXCEPT ![skey] = saved.file],
              key |-> skey, wrote |-> saved.file.kind = "entry"]

\* The environment of a call: whether the remote backend has its credential
\* and package, whether pytesseract is installed, and what the engines read.
Envs ==
    [avail : BOOLEAN, rm : RemoteScenarios, tess : BOOLEAN]

\* The environments that differ in something a call with this backend reads:
\* the remote scenario when the remote backend recognizes, else whether the
\* local engine is installed.
EnvsFor(use_mistral) ==
    {e \in Envs :
        IF use_mistral /\ e.avail
        THEN e.tess
        ELSE /\ e.rm.batch = "fail" /\ e.rm.ix = "fail"
             /\ (use_mistral \/ ~e.avail)}

NoStored == [result |-> EmptyTicks, conf |-> Zero, some |-> FALSE]

TickLabelsCall(images, axesSet, envs, faults) ==
    \E image \in images, axes \in axesSet, use_mistral \in BOOLEAN,
       use_cache \in BOOLEAN, fault \in faults :
      \E env \in EnvsFor(use_mistral) \cap envs :
      \E out \in {extract_tick_labels(image, axes, use_mistral, use_cache, env,
                                       cacheFiles, fault)} :
        LET ret == [result |-> out.call.result, conf |-> out.call.conf,
                    some |-> TRUE]
        IN  /\ call' = out.call
            /\ cacheFiles' = out.files
            /\ stored' = IF out.wrote
                         THEN [stored EXCEPT ![out.key] = ret]
                         ELSE IF out.files[out.key] # cacheFiles[out.key]
                         THEN [stored EXCEPT ![out.key] = NoStored]
                         ELSE stored
            /\ first' = IF out.wrote /\ ~first[out.key].some
                        THEN [first EXCEPT ![out.key] = ret]
                        ELSE first
            /\ UNCHANGED <<apiVars, concVars, llmVars>>

\* extract_tick_labels called with any image and axes.
ExtractTickLabels == TickLabelsCall(Images, AxesSet, Envs, {"none"})

\* extract_tick_labels called on the one image whose cache files are damaged.
DamagedImages == {i \in Images : i.id = "imgA"}
DamagedAxes == {a \in AxesSet : a.x = 50}

\* The remote service answers the batch request with one value for the y
\* axis, or answers nothing.
CleanEnvs ==
    {e \in Envs : e.rm.ix = e.rm.iy /\ Len(e.rm.yv) <= 1}

ExtractTickLabelsDamaged ==
    TickLabelsCall(DamagedImages, DamagedAxes, CleanEnvs, Faults)

\* get_cached_result called directly.
GetCachedResultCall ==
    \E image \in DamagedImages, backend \in Backends, fault \in Faults :
      \E got \in {get_cached_result(cacheFiles[cache_file(backend, image)], fault)} :
            /\ call' = [NoCall EXCEPT
                          !.name = "get_cached_result", !.image = image.id,
                          !.backend_name = backend,
                          !.found = cacheFiles[cache_file(backend, image)].kind,
                          !.flt = fault,
                          !.outcome = (IF got.raised THEN "raised" ELSE "returned"),
                          !.exc = got.exc,
                          !.hit = ~got.raised /\ cached_truthy(got),
                          !.result = got.json.result,
                          !.conf = got.json.confidence]
            /\ UNCHANGED <<cacheFiles, stored, first>>
            /\ UNCHANGED <<apiVars, concVars, llmVars>>

\* save_to_cache called directly with a result and confidence.
SaveToCacheCall ==
    \E image \in DamagedImages, backend \in Backends, fault \in Faults :
      \E k \in {cache_file(backend, image)} :
        \E saved \in {save_to_cache(cacheFiles[k], EmptyTicks, Zero, backend, fault)} :
            /\ call' = [NoCall EXCEPT
                          !.name = "save_to_cache", !.image = image.id,
                          !.backend_name = backend,
                          !.flt = fault,
                          !.outcome = (IF saved.raised THEN "raised" ELSE "returned"),
                          !.exc = saved.exc]
            /\ cacheFiles' = [cacheFiles EXCEPT ![k] = saved.file]
            /\ stored' = IF saved.file = cacheFiles[k] THEN stored
                         ELSE [stored EXCEPT ![k] = NoStored]
            /\ UNCHANGED <<first>>
            /\ UNCHANGED <<apiVars, concVars, llmVars>>

\* Something else damages a cache file of the local engine.
DamagedBackends == {"tesseract"}


BreakFile ==
    \E image \in DamagedImages, backend \in DamagedBackends, kind \in BrokenKinds :
        /\ cacheFiles' = [cacheFiles EXCEPT ![cache_file(backend, image)] =
                            BrokenFile(kind)]
        /\ stored' = [stored EXCEPT ![cache_file(backend, image)] = NoStored]
        /\ UNCHANGED <<call, first>>
        /\ UNCHANGED <<apiVars, concVars, llmVars>>

CoreInit ==
    /\ cacheFiles = [k \in CacheKeys |-> AbsentFile]
    /\ call = NoCall
    /\ stored = [k \in CacheKeys |-> NoStored]
    /\ first = [k \in CacheKeys |-> NoStored]

-----------------------------------------------------------------------------
(* core/cache.py: save_to_cache and get_cached_result running concurrently   *)
(* on the file of one image+backend key. A payload is a sequence of cells;   *)
(* json.dump reaches the file through a buffered text stream, which issues   *)
(* one write() per full buffer and one at close.                             *)

Writers == {"w1", "w2"}

\* The sizes, in cells, of the payloads written.
Sizes == 1..MaxCells

NoWriter == "none"

\* A cell nobody wrote: the zero bytes of a gap left by a write past the end.
Hole == [n |-> 0, w |-> NoWriter, i |-> 0]

\* Cell i of the n-cell payload of writer w.
Cell(w, i, n) == [n |-> n, w |-> w, i |-> i]

IdleWriter == [pc |-> "idle", size |-> 0, pos |-> 0]

\* write() of cells at offset pos of a file: the gap up to pos is zero
\* filled, cells under the written range are replaced, cells after it stay.
WriteAt(file, pos, cells) ==
    [j \in 1..Max(Len(file), pos + Len(cells)) |->
        IF j > pos /\ j <= pos + Len(cells) THEN cells[j - pos]
        ELSE IF j <= Len(file) THEN file[j]
        ELSE Hole]

\* cache.py lines 47-51: json.load of what the file holds. An empty file, a
\* file with a gap, and cells that do not line up into one document are a
\* JSONDecodeError, hence None; cells of equal-sized payloads, each at its own
\* place, form a document, which mixes two payloads when the cells come from
\* two writers.
json_load(file) ==
    IF file = <<>> THEN [kind |-> "miss", w |-> NoWriter]
    ELSE IF \E j \in 1..Len(file) :
               file[j] = Hole \/ file[j].i # j \/ file[j].n # Len(file)
    THEN [kind |-> "miss", w |-> NoWriter]
    ELSE IF \A j \in 1..Len(file) : file[j].w = file[1].w
    THEN [kind |-> "payload", w |-> file[1].w]
    ELSE [kind |-> "mixture", w |-> NoWriter]

\* cache.py line 81: open(cache_file, "w") truncates the file; the stream
\* starts at offset 0.
SaveOpen(w) ==
    /\ wr[w].pc = "idle"
    /\ \E size \in Sizes :
          wr' = [wr EXCEPT ![w] = [pc |-> "open", size |-> size, pos |-> 0]]
    /\ disk' = <<>>
    /\ UNCHANGED <<lastWriter, rd>>
    /\ UNCHANGED <<apiVars, coreVars, llmVars>>

\* cache.py line 82: json.dump fills the stream's buffer; each full buffer,
\* and the rest at close, goes to the file at the stream's own offset.
SaveWrite(w) ==
    /\ wr[w].pc = "open"
    /\ wr[w].pos < wr[w].size
    /\ LET n == Min(BufferCells, wr[w].size - wr[w].pos)
           cells == [j \in 1..n |-> Cell(w, wr[w].pos + j, wr[w].size)]
       IN  /\ disk' = WriteAt(disk, wr[w].pos, cells)
           /\ wr' = [wr EXCEPT ![w].pos = wr[w].pos + n]
    /\ lastWriter' = w
    /\ UNCHANGED <<rd>>
    /\ UNCHANGED <<apiVars, coreVars, llmVars>>

\* cache.py lines 81-84: the with block is left, save_to_cache returns.
SaveClose(w) ==
    /\ wr[w].pc = "open"
    /\ wr[w].pos = wr[w].size
    /\ wr' = [wr EXCEPT ![w].pc = "done"]
    /\ UNCHANGED <<disk, lastWriter, rd>>
    /\ UNCHANGED <<apiVars, coreVars, llmVars>>

\* get_cached_result, cache.py lines 42-52, reading the file in one step.
GetCachedResult ==
    /\ rd' = json_load(disk)
    /\ UNCHANGED <<disk, wr, lastWriter>>
    /\ UNCHANGED <<apiVars, coreVars, llmVars>>

ConcInit ==
    /\ disk = <<>>
    /\ wr = [w \in Writers |-> IdleWriter]
    /\ lastWriter = NoWriter
    /\ rd = [kind |-> "none", w |-> NoWriter]

-----------------------------------------------------------------------------
(* core/llm_extraction.py: extract_chart_llm from the response on. A response *)
(* text is a sequence of tokens: punctuation, members of an object written   *)
(* as one token each (none of them holds a brace), scalars and prose.        *)

\* Members: "data" with a list of 0, 1 or 6 points, "data" with a value that
\* is not a list, a label, the four range keys, another key.
MemberTokens == {"D0", "D1", "D6", "Dn", "Lb", "Rg", "K"}

\* "v" a number, "q" the string "data", "p" a word of prose, "fence" a code
\* fence.
Tokens == {"{", "}", "[", "]", ",", "D1", "Dn", "p"}

SeqsUpTo(S, n) == UNION {[1..k -> S] : k \in 0..n}

\* Responses with the members and scalars the enumeration leaves out.
SampleContents ==
    {<<"fence", "{", "D6", ",", "Lb", ",", "Rg", "}", "fence">>,
     <<"p", "{", "D6", ",", "Rg", "}", "p">>,
     <<"{", "D0", "}">>,
     <<"{", "D0", ",", "Lb", "}">>,
     <<"{", "D1", ",", "Lb", ",", "K", "}">>,
     <<"{", "D1", ",", "Dn", "}">>,
     <<"{", "K", "}">>,
     <<"v">>, <<"q">>, <<"[", "q", "]">>, <<"[", "v", ",", "v", "]">>,
     <<"[", "{", "D6", ",", "Lb", "}", "]">>}

Contents == SeqsUpTo(Tokens, MaxLen) \cup SampleContents

\* What the service call gives: a text, a response without text (no choice,
\* or content None), or an exception of the client.
Responses ==
    {[shape |-> "text", content |-> c] : c \in Contents}
      \cup {[shape |-> sh, content |-> <<>>] : sh \in {"notext", "request_failed"}}

\* llm_extraction.py line 122: the code fences are removed.
strip_fences(content) == SelectSeq(content, LAMBDA t : t # "fence")

\* llm_extraction.py lines 125-127: the greedy, dot-matches-all search for
\* a brace pair takes the text from the first "{" to the last "}", when the
\* first lies before the last.
json_match(content) ==
    LET opens == {i \in 1..Len(content) : content[i] = "{"}
        closes == {i \in 1..Len(content) : content[i] = "}"}
        lo == CHOOSE i \in opens : \A j \in opens : i <= j
        hi == CHOOSE i \in closes : \A j \in closes : i >= j
    IN  IF opens # {} /\ closes # {} /\ lo < hi
        THEN SubSeq(content, lo, hi)
        ELSE content

\* The value of a JSON text, as far as extract_chart_llm looks at it.
NoValue ==
    [kind |-> "none", npoints |-> 0, data |-> "absent", labels |-> FALSE,
     range |-> FALSE, hasq |-> FALSE]

Failed == [ok |-> FALSE, val |-> NoValue, rest |-> <<>>]

\* An object after one more member: a later "data" replaces an earlier one.
with_member(obj, m) ==
    IF m = "D0" THEN [obj EXCEPT !.data = "list", !.npoints = 0]
    ELSE IF m = "D1" THEN [obj EXCEPT !.data = "list", !.npoints = 1]
    ELSE IF m = "D6" THEN [obj EXCEPT !.data = "list", !.npoints = 6]
    ELSE IF m = "Dn" THEN [obj EXCEPT !.data = "notlist", !.npoints = 0]
    ELSE IF m = "Lb" THEN [obj EXCEPT !.labels = TRUE]
    ELSE IF m = "Rg" THEN [obj EXCEPT !.range = TRUE]
    ELSE obj

RECURSIVE parse_value(_)
RECURSIVE parse_elements(_, _)
RECURSIVE parse_members(_, _)

\* json.loads, one value from the front of the tokens.
parse_value(toks) ==
    IF toks = <<>> THEN Failed
    ELSE IF Head(toks) = "v"
    THEN [ok |-> TRUE, val |-> [NoValue EXCEPT !.kind = "number"], rest |-> Tail(toks)]
    ELSE IF Head(toks) = "q"
    THEN [ok |-> TRUE, val |-> [NoValue EXCEPT !.kind = "string", !.hasq = TRUE],
          rest |-> Tail(toks)]
    ELSE IF Head(toks) = "["
    THEN IF Len(toks) >= 2 /\ toks[2] = "]"
         THEN [ok |-> TRUE, val |-> [NoValue EXCEPT !.kind = "list"],
               rest |-> Tail(Tail(toks))]
         ELSE parse_elements(Tail(toks), [NoValue EXCEPT !.kind = "list"])
    ELSE IF Head(toks) = "{"
    THEN IF Len(toks) >= 2 /\ toks[2] = "}"
         THEN [ok |-> TRUE, val |-> [NoValue EXCEPT !.kind = "object"],
               rest |-> Tail(Tail(toks))]
         ELSE parse_members(Tail(toks), [NoValue EXCEPT !.kind = "object"])
    ELSE Failed

\* The elements of a list, up to its "]".
parse_elements(toks, list) ==
    CHOOSE out \in
      {IF ~e.ok \/ e.rest = <<>> THEN Failed
       ELSE IF Head(e.rest) = "]"
       THEN [ok |-> TRUE, val |-> [list EXCEPT !.hasq = list.hasq \/ e.val.kind = "string"],
             rest |-> Tail(e.rest)]
       ELSE IF Head(e.rest) = ","
       THEN parse_elements(Tail(e.rest),
                           [list EXCEPT !.hasq = list.hasq \/ e.val.kind = "string"])
       ELSE Failed
         : e \in {parse_value(toks)}} : TRUE

\* The members of an object, up to its "}".
parse_members(toks, obj) ==
    IF Len(toks) < 2 \/ Head(toks) \notin MemberTokens THEN Failed
    ELSE IF toks[2] = "}"
    THEN [ok |-> TRUE, val |-> with_member(obj, Head(toks)), rest |-> Tail(Tail(toks))]
    ELSE IF toks[2] = ","
    THEN parse_members(Tail(Tail(toks)), with_member(obj, Head(toks)))
    ELSE Failed

\* json.loads, llm_extraction.py line 129: the whole text is one value.
json_loads(toks) ==
    CHOOSE out \in
      {IF r.ok /\ r.rest = <<>> THEN r ELSE Failed : r \in {parse_value(toks)}} : TRUE

\* The validation without the isinstance test: any "data" key will do.
validate_DataKeyOnly(val) ==
    IF val.kind = "object"
    THEN IF val.data # "absent" THEN "valid" ELSE "nodata"
    ELSE IF val.kind \in {"list", "string"}
    THEN IF val.hasq THEN "raises" ELSE "nodata"
    ELSE "raises"

\* llm_extraction.py line 132, evaluated on whatever json.loads returned:
\* "valid", "nodata" (the error of line 133) or "raises" (the membership test
\* or the subscript raises TypeError, caught at line 156).
validate(val) ==
    IF val.kind = "object"
    THEN IF val.data = "list" THEN "valid" ELSE "nodata"
    ELSE IF val.kind \in {"list", "string"}
    THEN IF val.hasq THEN "raises" ELSE "nodata"
    ELSE "raises"

\* The confidence without the addition for more than five points.
confidence_NoManyPoints(val) ==
    <<Min(10, 5 + (IF val.npoints > 0 THEN 2 ELSE 0)
                + (IF val.labels THEN 1 ELSE 0)
                + (IF val.range THEN 1 ELSE 0)), 10>>

\* llm_extraction.py lines 136-150: the confidence, in tenths.
confidence(val) ==
    <<Min(10, 5 + (IF val.npoints > 0 THEN 2 ELSE 0)
                + (IF val.npoints > 5 THEN 1 ELSE 0)
                + (IF val.labels THEN 1 ELSE 0)
                + (IF val.range THEN 1 ELSE 0)), 10>>

NoLlmCall ==
    [requests |-> 0, error |-> "", pre |-> "ok", exc |-> "",
     val |-> NoValue, conf |-> Zero, outcome |-> "none", shape |-> "none",
     content |-> <<>>]

\* extract_chart_llm, llm_extraction.py lines 102-157: what it returns for a
\* response. Every exception of the block is caught at lines 154-157.
extract_chart_llm(response) ==
    LET base == [NoLlmCall EXCEPT !.shape = response.shape,
                                  !.content = response.content,
                                  !.outcome = "returned",
                                  !.requests = 1]
    IN  IF response.shape = "request_failed"
        THEN [base EXCEPT !.error = "exception"]
        ELSE IF response.shape = "notext"
        THEN [base EXCEPT !.error = "exception"]
        ELSE CHOOSE out \in
               {IF ~r.ok THEN [base EXCEPT !.error = "JSON parse error"]
                ELSE IF validate(r.val) = "nodata"
                THEN [base EXCEPT !.error = "No data extracted"]
                ELSE IF validate(r.val) = "raises"
                THEN [base EXCEPT !.error = "exception"]
                ELSE [base EXCEPT !.val = r.val, !.conf = confidence(r.val)]
                  : r \in {json_loads(json_match(strip_fences(response.content)))}}
               : TRUE

\* A call that has sent its request and has this response to handle.
Pending(response) ==
    [NoLlmCall EXCEPT !.shape = response.shape, !.content = response.content,
                      !.outcome = "pending", !.requests = 1]

\* extract_chart_llm handles the response of its request.
ExtractChartLlm ==
    /\ llm.outcome = "pending"
    /\ llm' = extract_chart_llm([shape |-> llm.shape, content |-> llm.content])
    /\ UNCHANGED <<apiVars, coreVars, concVars>>

\* What a call finds before its request: the credential, the client package,
\* a file cv2.imread can read and an image cv2.imencode can encode, or one of
\* them missing.
Preconditions == {"ok", "no_key", "no_package", "unreadable", "unencodable"}

\* Only the credential is checked before the request.
precheck_KeyOnly(pre) == IF pre = "no_key" THEN "ValueError" ELSE ""

\* llm_extraction.py lines 50-62 (and mistral_ocr.py lines 33-35): the
\* exception raised before the client is created, "" when there is none.
precheck(pre) ==
    CASE pre = "no_key" -> "ValueError"
      [] pre = "no_package" -> "ImportError"
      [] pre = "unreadable" -> "ValueError"
      [] pre = "unencodable" -> "ValueError"
      [] OTHER -> ""

\* extract_chart_llm, llm_extraction.py lines 50-157: the checks, then the
\* one request and its response.
extract_chart_llm_call(pre, response) ==
    IF precheck(pre) # ""
    THEN [NoLlmCall EXCEPT !.shape = response.shape, !.content = response.content,
                           !.outcome = "raised", !.exc = precheck(pre),
                           !.pre = pre]
    ELSE [extract_chart_llm(response) EXCEPT !.pre = pre]

\* The answers of the remote service to the calls of SpecLlmCall.
CallResponses == {r \in Responses : r.content \in SampleContents \cup {<<>>}}

\* A call that has begun, what it finds and what the service would answer.
Called(pre, response) ==
    [NoLlmCall EXCEPT !.shape = response.shape, !.content = response.content,
                      !.outcome = "called", !.pre = pre]

\* extract_chart_llm from its first line to its return or raise.
ExtractChartLlmCall ==
    /\ llm.outcome = "called"
    /\ llm' = extract_chart_llm_call(llm.pre, [shape |-> llm.shape,
                                               content |-> llm.content])
    /\ UNCHANGED <<apiVars, coreVars, concVars>>

LlmInit == llm = NoLlmCall

-----------------------------------------------------------------------------
(* core/autocrop.py and core/extraction.py: the confidence each stage       *)
(* returns, as numerator and denominator, from what its image analysis      *)
(* found.                                                                    *)

SetMin(S) == CHOOSE x \in S : \A y \in S : x <= y
SetMax(S) == CHOOSE x \in S : \A y \in S : x >= y

\* The image the stages other than the cache are run on.
StageImages == {i \in Images : i.id = "imgB"}

\* The rows of the horizontal and the columns of the vertical Hough lines.
LineSets == {{}, {20, 60}, {10, 90}}
ColumnSets == {{}, {100}, {40, 110}, {20, 180}}

\* _fallback_crop, autocrop.py lines 173-179: int() truncates.
fallback_crop(w, h) ==
    <<w \div 10, h \div 10, w - (w \div 10), h - (h \div 10)>>

\* The margins detect_plot_area is called with: the default and larger ones.
PlotMargins == {5, 30, 60}

\* detect_plot_area, autocrop.py lines 13-101: the confidence, the crop box
\* and where the box comes from. No path calls detect_plot_area_contour.
detect_plot_area(image, margin, horizontal_lines, vertical_lines, other_lines) ==
    IF Cardinality(horizontal_lines) + Cardinality(vertical_lines) + other_lines < 2
    THEN [why |-> "few_segments", conf |-> <<3, 10>>,
          box |-> fallback_crop(image.w, image.h), via |-> "fallback", contour_called |-> FALSE]
    ELSE IF horizontal_lines = {} \/ vertical_lines = {}
    THEN [why |-> "no_orientation", conf |-> <<4, 10>>,
          box |-> fallback_crop(image.w, image.h), via |-> "fallback", contour_called |-> FALSE]
    ELSE LET left_x == SetMin(vertical_lines)
             right_x == SetMax(vertical_lines)
             top_y == SetMin(horizontal_lines)
             bottom_y == SetMax(horizontal_lines)
             width == right_x - left_x
             height == bottom_y - top_y
         IN  IF 10 * width < 3 * image.w \/ 10 * height < 3 * image.h
             THEN [why |-> "undersized", conf |-> <<4, 10>>,
                   box |-> fallback_crop(image.w, image.h), via |-> "fallback", contour_called |-> FALSE]
             ELSE [why |-> "",
                   conf |-> IF 10 * width > 5 * image.w /\ 10 * height > 5 * image.h
                            THEN <<9, 10>> ELSE <<8, 10>>,
                   box |-> <<Max(0, left_x + margin), Max(0, top_y + margin),
                             Min(image.w, right_x - margin),
                             Min(image.h, bottom_y - margin)>>, via |-> "lines", contour_called |-> FALSE]

\* The bounding boxes of the contours with four corners or more.
NoRect == [x |-> 0, y |-> 0, cw |-> 0, ch |-> 0]
Rects == {NoRect, [x |-> 5, y |-> 5, cw |-> 30, ch |-> 30],
          [x |-> 10, y |-> 10, cw |-> 180, ch |-> 80]}
Margins == {10, 60}

\* detect_plot_area_contour, autocrop.py lines 104-170: rect is the largest
\* bounding box of a contour with four corners or more (NoRect: none).
detect_plot_area_contour(image, rect, margin) ==
    IF rect = NoRect \/ 10 * rect.cw * rect.ch <= 2 * image.w * image.h
    THEN [why |-> "no_contour", conf |-> <<3, 10>>,
          box |-> fallback_crop(image.w, image.h), via |-> "fallback", contour_called |-> TRUE]
    ELSE LET x1 == Min(rect.x + margin, image.w - 1)
             y1 == Min(rect.y + margin, image.h - 1)
             x2 == Max(rect.x + rect.cw - margin, 0)
             y2 == Max(rect.y + rect.ch - margin, 0)
         IN  IF x2 <= x1 \/ y2 <= y1
             THEN [why |-> "margin", conf |-> <<3, 10>>,
                   box |-> fallback_crop(image.w, image.h), via |-> "fallback", contour_called |-> TRUE]
             ELSE [why |-> "", conf |-> <<7, 10>>,
                   box |-> <<x1, y1, x2, y2>>, via |-> "contour", contour_called |-> TRUE]

\* The number of points found, how much their areas vary (none: fewer than
\* three areas, or mean 0) and whether they spread over more than 50 pixels
\* both ways.
PointCounts == {0, 1, 3, 200, 201, 501}
Variations == {"none", "low", "mid", "high"}

\* The confidence without the deduction for more than 500 points.
calculate_confidence_NoNoise(num_points, cv, spread) ==
    IF num_points = 0 THEN <<1, 10>>
    ELSE LET count == IF 3 <= num_points /\ num_points <= 200 THEN 2 ELSE 0
             sizes == IF cv = "low" THEN 2 ELSE IF cv = "high" THEN -1 ELSE 0
             area == IF num_points >= 3 /\ spread THEN 1 ELSE 0
         IN  <<Max(1, Min(10, 5 + count + sizes + area)), 10>>

\* _calculate_confidence, extraction.py lines 251-286.
calculate_confidence(num_points, cv, spread) ==
    IF num_points = 0 THEN <<1, 10>>
    ELSE LET count == IF 3 <= num_points /\ num_points <= 200 THEN 2
                      ELSE IF num_points > 500 THEN -2 ELSE 0
             sizes == IF cv = "low" THEN 2 ELSE IF cv = "high" THEN -1 ELSE 0
             area == IF num_points >= 3 /\ spread THEN 1 ELSE 0
         IN  <<Max(1, Min(10, 5 + count + sizes + area)), 10>>

\* What a strategy found: `small` points of area 10 and `large` points of
\* area `big`, and the extent of the points along x and along y.
Finds ==
    {f \in [small : {0, 1, 2, 3, 200, 201, 500, 501}, large : {0, 1},
             big : {12, 500}, x_range : {0, 50, 51}, y_range : {0, 50, 51}] :
        f.small + f.large <= 1 => (f.x_range = 0 /\ f.y_range = 0)}

num_points(f) == f.small + f.large

\* Four times the variance of the areas and the square of their mean, both
\* times the square of their number.
variance4(f) ==
    4 * (num_points(f) * (100 * f.small + f.big * f.big * f.large)
         - (10 * f.small + f.big * f.large) * (10 * f.small + f.big * f.large))

mean2(f) == (10 * f.small + f.big * f.large) * (10 * f.small + f.big * f.large)

\* extraction.py lines 269-277: the coefficient of variation is looked at for
\* three areas or more with a positive mean: below 0.5, above 1.5, between.
area_variation(f) ==
    IF num_points(f) < 3 \/ mean2(f) = 0 THEN "none"
    ELSE IF variance4(f) < mean2(f) THEN "low"
    ELSE IF variance4(f) > 9 * mean2(f) THEN "high"
    ELSE "mid"

\* extraction.py line 283
spread_out(f) == f.x_range > 50 /\ f.y_range > 50

\* _calculate_confidence on what a strategy found.
scatter_confidence(f) ==
    calculate_confidence(num_points(f), area_variation(f), spread_out(f))

\* extract_scatter_points_color and extract_scatter_points_blob,
\* extraction.py lines 89-248: the number of points and their confidence.
ScatterOutcomes ==
    {[n |-> n, conf |-> calculate_confidence(n, cv, sp)] :
        n \in {0, 3}, cv \in {"low", "high"}, sp \in BOOLEAN}

Methods == {"auto", "color", "blob", "other"}

\* What extract_scatter_points returns: the points and confidence of one
\* strategy, or of none, and whether the blob strategy was run.
Scattered(from, out, blob_called) ==
    [n |-> out.n, conf |-> out.conf, from |-> from, blob_called |-> blob_called]

NoScatter == [n |-> 0, conf |-> <<1, 10>>]

\* The same with a color result of exactly 0.7 not good enough.
extract_scatter_points_Above(method, color, blob) ==
    IF method = "color" THEN Scattered("color", color, FALSE)
    ELSE IF method = "auto" /\ color.n > 0 /\ 10 * color.conf[1] > 7 * color.conf[2]
    THEN Scattered("color", color, FALSE)
    ELSE IF method = "blob" THEN Scattered("blob", blob, TRUE)
    ELSE IF method = "auto"
    THEN IF color.n = 0 THEN Scattered("blob", blob, TRUE)
         ELSE Scattered("color", color, TRUE)
    ELSE Scattered("none", NoScatter, FALSE)

\* extract_scatter_points, extraction.py lines 45-86.
extract_scatter_points(method, color, blob) ==
    IF method = "color" THEN Scattered("color", color, FALSE)
    ELSE IF method = "auto" /\ color.n > 0 /\ 10 * color.conf[1] >= 7 * color.conf[2]
    THEN Scattered("color", color, FALSE)
    ELSE IF method = "blob" THEN Scattered("blob", blob, TRUE)
    ELSE IF method = "auto"
    THEN IF color.n = 0 THEN Scattered("blob", blob, TRUE)
         ELSE Scattered("color", color, TRUE)
    ELSE Scattered("none", NoScatter, FALSE)

\* The crop columns x1, x2 and the columns of the crop that hold a line pixel.
CropColumns == {[x1 |-> 0, x2 |-> 4], [x1 |-> 2, x2 |-> 4], [x1 |-> 1, x2 |-> -1]}

\* The width of image[:, x1:x2] for an image of w columns.
roi_width(w, x1, x2) ==
    LET lo == IF x1 < 0 THEN Max(0, w + x1) ELSE Min(w, x1)
        hi == IF x2 < 0 THEN Max(0, w + x2) ELSE Min(w, x2)
    IN  Max(0, hi - lo)

\* extract_line_points, extraction.py lines 324-339.
extract_line_points(crop, unique_x) ==
    IF unique_x = 0 THEN <<1, 10>>
    ELSE IF crop.x2 - crop.x1 > 0
    THEN <<Min(10 * (crop.x2 - crop.x1), 4 * (crop.x2 - crop.x1) + 6 * unique_x),
           10 * (crop.x2 - crop.x1)>>
    ELSE <<4, 10>>

\* extract_bar_data, extraction.py line 384.
extract_bar_data(bars) == IF bars > 0 THEN <<9, 10>> ELSE <<5, 10>>

\* The bounding boxes <<bx, by, bw, bh>> of the external contours, in the
\* order findContours gives them, and the crop box (x1 and y1 of it; none
\* when the whole image is taken).
BarBoxes == {<<bx, 5, bw, bh>> : bx \in {0, 1}, bw \in {5, 6, 8}, bh \in {10, 11}}

BarCrops == {[given |-> FALSE, x1 |-> 0, y1 |-> 0], [given |-> TRUE, x1 |-> 2, y1 |-> 3]}

\* extraction.py lines 354-359: the offsets added to the points.
bar_offset(crop) == IF crop.given THEN <<crop.x1, crop.y1>> ELSE <<0, 0>>

\* The filter without the test of the width.
is_bar_AnyWidth(box) == box[4] > 10

\* extraction.py line 375
is_bar(box) == box[4] > 10 /\ box[3] > 5

\* extraction.py line 377: the point of a box, its x doubled (bx + bw/2 is a
\* whole number or a whole number and a half).
bar_point(box, offset) == <<2 * box[1] + box[3] + 2 * offset[1], box[2] + offset[2]>>

RECURSIVE bar_points(_, _)
bar_points(contours, offset) ==
    IF contours = <<>> THEN <<>>
    ELSE (IF is_bar(Head(contours)) THEN <<bar_point(Head(contours), offset)>> ELSE <<>>)
         \o bar_points(Tail(contours), offset)

\* points.sort(key=lambda p: p[0]), extraction.py line 380: an ascending,
\* stable sort on x.
RECURSIVE insert_by_x(_, _)
insert_by_x(p, s) ==
    IF s = <<>> THEN <<p>>
    ELSE IF p[1] <= Head(s)[1] THEN <<p>> \o s
    ELSE <<Head(s)>> \o insert_by_x(p, Tail(s))

RECURSIVE sort_by_x(_)
sort_by_x(s) == IF s = <<>> THEN <<>> ELSE insert_by_x(Head(s), sort_by_x(Tail(s)))

\* extract_bar_data from the contours on, extraction.py lines 368-386.
extract_bar_points(contours, crop) ==
    LET points == sort_by_x(bar_points(contours, bar_offset(crop)))
    IN  [conf |-> extract_bar_data(Len(points)), points |-> points]

\* What a stage call leaves in call: its name and the confidence returned.
stage_call(name, conf) ==
    [NoCall EXCEPT !.name = name, !.outcome = "returned", !.conf = conf]

\* What a plot-area detection leaves in call.
crop_call(name, image, margin, out) ==
    [NoCall EXCEPT !.name = name, !.outcome = "returned", !.conf = out.conf,
                   !.dims = <<image.w, image.h>>, !.margin = margin,
                   !.box = out.box, !.via = out.via,
                   !.contour_called = out.contour_called, !.why = out.why]

DetectPlotArea ==
    /\ \E image \in StageImages, margin \in PlotMargins, hl \in LineSets,
          vl \in ColumnSets, other \in 0..1 :
          call' = crop_call("detect_plot_area", image, margin,
                            detect_plot_area(image, margin, hl, vl, other))
    /\ UNCHANGED <<cacheFiles, stored, first>>
    /\ UNCHANGED <<apiVars, concVars, llmVars>>

DetectPlotAreaContour ==
    /\ \E image \in StageImages, rect \in Rects, margin \in Margins :
          call' = crop_call("detect_plot_area_contour", image, margin,
                            detect_plot_area_contour(image, rect, margin))
    /\ UNCHANGED <<cacheFiles, stored, first>>
    /\ UNCHANGED <<apiVars, concVars, llmVars>>

ExtractScatterPoints ==
    /\ \E method \in Methods, color \in ScatterOutcomes, blob \in ScatterOutcomes :
          call' = [NoCall EXCEPT !.name = "extract_scatter_points",
                                 !.outcome = "returned",
                                 !.conf = extract_scatter_points(method, color, blob).conf,
                                 !.scatter = [out |-> extract_scatter_points(method, color, blob), method |-> method,
                                              color |-> color,
                                              blob |-> blob]]
    /\ UNCHANGED <<cacheFiles, stored, first>>
    /\ UNCHANGED <<apiVars, concVars, llmVars>>

ExtractScatterPointsBlob ==
    /\ \E n \in PointCounts, cv \in Variations, sp \in BOOLEAN :
          call' = stage_call("extract_scatter_points_blob",
                             calculate_confidence(n, cv, sp))
    /\ UNCHANGED <<cacheFiles, stored, first>>
    /\ UNCHANGED <<apiVars, concVars, llmVars>>

ExtractLinePoints ==
    /\ \E crop \in CropColumns :
         \E unique_x \in 0..roi_width(MaxColumns, crop.x1, crop.x2) :
            call' = stage_call("extract_line_points",
                               extract_line_points(crop, unique_x))
    /\ UNCHANGED <<cacheFiles, stored, first>>
    /\ UNCHANGED <<apiVars, concVars, llmVars>>

ExtractBarData ==
    /\ \E bars \in 0..MaxPts :
          call' = stage_call("extract_bar_data", extract_bar_data(bars))
    /\ UNCHANGED <<cacheFiles, stored, first>>
    /\ UNCHANGED <<apiVars, concVars, llmVars>>

\* extract_chart_llm as a stage: the confidence it returns.
ExtractChartLlmStage ==
    /\ \E response \in {r \in Responses : r.content \in SampleContents \cup {<<>>}} :
          call' = stage_call("extract_chart_llm", extract_chart_llm(response).conf)
    /\ UNCHANGED <<cacheFiles, stored, first>>
    /\ UNCHANGED <<apiVars, concVars, llmVars>>

\* extract_tick_labels as a stage, on the image whose labels all read.
ExtractTickLabelsStage == TickLabelsCall(StageImages, AxesSet, Envs, {"none"})

\* The inputs build_transform is called with. Calibration points are
\* (pixel, value) pairs; ticks are given the same way, at different pixels
\* of their axis.
MaxCal == 2

MaxTicks == 3

CalPoints == {<<50, 0>>, <<550, 5>>, <<250, 2>>, <<50, 1>>, <<550, 100>>, <<250, -10>>}

TickPoints == {<<10, 0>>, <<20, 1>>, <<30, 0>>, <<10, 1>>, <<20, 10>>, <<30, 100>>}

AxisCal == SeqsUpTo(CalPoints, MaxCal)

AxisTicks ==
    {s \in SeqsUpTo(TickPoints, MaxTicks) :
        \A i, j \in 1..Len(s) : i # j => s[i][1] # s[j][1]}

\* What the other axis holds while one axis takes every list.
OtherCal ==
    {<<>>, <<<<50, 0>>>>, <<<<50, 0>>, <<550, 5>>>>, <<<<50, 1>>, <<550, 100>>>>}

OtherTicks ==
    {<<>>, <<<<10, 1>>>>, <<<<10, 0>>, <<20, 1>>>>, <<<<10, 1>>, <<20, 10>>, <<30, 100>>>>}

MapsOf(lists, others) ==
    {NoneMap, EmptyMap}
    \cup {Mapping(a, o) : a \in lists, o \in others}
    \cup {Mapping(o, a) : a \in lists, o \in others}
    \cup {[x |-> a, y |-> <<>>, none |-> FALSE, keys |-> {"x"}] : a \in others}
    \cup {[x |-> <<>>, y |-> a, none |-> FALSE, keys |-> {"y"}] : a \in others}

Scales == {"linear", "log"}

\* An axis on the log scale holds values whose logarithm the model has.
LogOk(points, scale) ==
    scale = "log" => \A i \in 1..Len(points) : points[i][2] \in LogValues

BuildInputs ==
    {b \in ([ticks : {NoneMap, Mapping(<<<<10, 0>>, <<20, 1>>>>, <<<<10, 1>>, <<20, 10>>>>)},
             calibration_points : MapsOf(AxisCal, OtherCal),
             x_scale : Scales, y_scale : Scales]
            \cup
            [ticks : MapsOf(AxisTicks, OtherTicks),
             calibration_points : {NoneMap, EmptyMap},
             x_scale : Scales, y_scale : Scales]) :
        /\ LogOk(b.ticks.x, b.x_scale) /\ LogOk(b.calibration_points.x, b.x_scale)
        /\ LogOk(b.ticks.y, b.y_scale) /\ LogOk(b.calibration_points.y, b.y_scale)}

\* The pixels apply_transform is given.
ApplyPixels == {50, 250, 550}

\* build_transform on the pending inputs: the transform returned or the
\* exception raised.
BuildTransform ==
    /\ call.name = "build_transform" /\ call.outcome = "pending"
    /\ \E out \in {build_transform(call.tin.ticks, call.tin.calibration_points,
                                   call.tin.x_scale, call.tin.y_scale)} :
          call' = [call EXCEPT !.outcome = IF out.exc = "" THEN "returned" ELSE "raised",
                               !.exc = out.exc, !.tout = out.transform]
    /\ UNCHANGED <<cacheFiles, stored, first>>
    /\ UNCHANGED <<apiVars, concVars, llmVars>>

\* apply_transform on one row of pixel coordinates, with the transform
\* build_transform returned.
ApplyTransform ==
    /\ call.name = "build_transform" /\ call.outcome = "returned"
    /\ \E px \in ApplyPixels, py \in ApplyPixels :
          call' = [call EXCEPT !.name = "apply_transform",
                               !.applied = [x |-> apply_axis(call.tout.x, px),
                                            y |-> apply_axis(call.tout.y, py),
                                            at |-> <<px, py>>]]
    /\ UNCHANGED <<cacheFiles, stored, first>>
    /\ UNCHANGED <<apiVars, concVars, llmVars>>

-----------------------------------------------------------------------------
ApiInit ==
    /\ requests = <<>>
    /\ granted = <<>>
    /\ now = 0
    /\ req = [mode |-> "none", endpoint |-> "none"]
    /\ llmOut = NoLlm
    /\ cvOut = NoCv
    /\ calls = <<>>
    /\ warnings = <<>>
    /\ resp = NoResp
    /\ tempFile = "none"

Init == ApiInit /\ CoreInit /\ ConcInit /\ LlmInit

Next == extract_data \/ extract_data_base64

Spec == Init /\ [][Next]_vars

\* The core stages called one after another on a cache nothing else touches.
NextCore == ExtractTickLabels

SpecCore == Init /\ [][NextCore]_vars

\* The same with a file system that fails and cache files that are damaged.
NextCacheEnv ==
    \/ ExtractTickLabelsDamaged
    \/ GetCachedResultCall
    \/ SaveToCacheCall
    \/ BreakFile

SpecCacheEnv == Init /\ [][NextCacheEnv]_vars

\* Two save_to_cache calls and any number of lookups on one key, interleaved.
NextConc ==
    \/ \E w \in Writers : SaveOpen(w)
    \/ \E w \in Writers : SaveWrite(w)
    \/ \E w \in Writers : SaveClose(w)
    \/ GetCachedResult

SpecConc == Init /\ [][NextConc]_vars

\* Every stage that returns a confidence, called one after another.
NextStages ==
    \/ ExtractTickLabelsStage
    \/ DetectPlotArea
    \/ DetectPlotAreaContour
    \/ ExtractScatterPoints
    \/ ExtractScatterPointsBlob
    \/ ExtractLinePoints
    \/ ExtractBarData
    \/ ExtractChartLlmStage

SpecStages == Init /\ [][NextStages]_vars

\* The requests of one client while the clock runs.
NextRate == ExtractDataRate \/ ExtractDataBase64Rate \/ Tick

SpecRate == Init /\ [][NextRate]_vars

\* _calculate_confidence on everything a strategy can find.
CalculateConfidence ==
    /\ call.name = "calculate_confidence" /\ call.outcome = "pending"
    /\ call' = [call EXCEPT !.outcome = "returned", !.conf = scatter_confidence(call.finds)]
    /\ UNCHANGED <<cacheFiles, stored, first>>
    /\ UNCHANGED <<apiVars, concVars, llmVars>>

\* extract_bar_data on the contours of every image.
ExtractBarPoints ==
    /\ call.name = "extract_bar_data" /\ call.outcome = "pending"
    /\ \E out \in {extract_bar_points(call.bars.contours, call.bars.crop)} :
          call' = [call EXCEPT !.outcome = "returned", !.conf = out.conf,
                               !.bars.points = out.points]
    /\ UNCHANGED <<cacheFiles, stored, first>>
    /\ UNCHANGED <<apiVars, concVars, llmVars>>

NextScatter == CalculateConfidence \/ ExtractBarPoints

InitScatter ==
    /\ ApiInit /\ ConcInit /\ LlmInit
    /\ cacheFiles = [k \in CacheKeys |-> AbsentFile]
    /\ stored = [k \in CacheKeys |-> NoStored]
    /\ first = [k \in CacheKeys |-> NoStored]
    /\ call \in {[NoCall EXCEPT !.name = "calculate_confidence", !.outcome = "pending",
                                !.finds = f] : f \in Finds}
                \cup
                {[NoCall EXCEPT !.name = "extract_bar_data", !.outcome = "pending",
                                !.bars.contours = cs, !.bars.crop = crop] :
                    cs \in SeqsUpTo(BarBoxes, MaxBars), crop \in BarCrops}

SpecScatter == InitScatter /\ [][NextScatter]_vars

\* Axis positions for the recognition functions: the label windows of both
\* axes, of neither, or of one axis only are inside the image.
OcrAxes == AxesSet \cup {[x |-> 96, y |-> 40], [x |-> 50, y |-> 3]}

\* The ticks argument of the recognition functions: what detect_ticks found.
TickSets ==
    {detect_ticks(i, a) : i \in Images, a \in AxesSet}
    \cup {[x |-> <<150, 50, 100>>, y |-> <<>>]}

\* The record of a recognition call once it has returned.
recognized(c, rec) ==
    [c EXCEPT !.outcome = "returned", !.result = rec.result, !.conf = rec.conf,
              !.remote = rec.remote, !.ocr = rec.ocr, !.sent = rec.sent,
              !.values = rec.values]

\* _extract_with_mistral, ocr.py lines 92-141, called with a backend that has
\* a client or has none, the remote service answering as in any scenario.
ExtractWithMistral ==
    /\ call.name = "extract_with_mistral" /\ call.outcome = "pending"
    /\ \E image \in {i \in Images : i.id = call.image}, rm \in RemoteScenarios :
         \E rec \in {extract_with_mistral(image, call.axes, call.ticks, call.avail, rm)} :
            call' = [recognized(call, rec) EXCEPT !.rm = rm]
    /\ UNCHANGED <<cacheFiles, stored, first>>
    /\ UNCHANGED <<apiVars, concVars, llmVars>>

\* _extract_with_tesseract, ocr.py lines 144-201.
ExtractWithTesseract ==
    /\ call.name = "extract_with_tesseract" /\ call.outcome = "pending"
    /\ \E image \in {i \in Images : i.id = call.image} :
         \E rec \in {extract_with_tesseract(image, call.axes, call.ticks)} :
            call' = recognized(call, rec)
    /\ UNCHANGED <<cacheFiles, stored, first>>
    /\ UNCHANGED <<apiVars, concVars, llmVars>>

\* extract_tick_labels on an image and axes, with either backend and with or
\* without the cache.
ExtractTickLabelsOcr ==
    /\ call.name = "extract_tick_labels" /\ call.outcome = "pending"
    /\ TickLabelsCall({i \in Images : i.id = call.image}, {call.axes}, Envs, {"none"})

NextOcr == ExtractWithMistral \/ ExtractWithTesseract \/ ExtractTickLabelsOcr

InitOcr ==
    /\ ApiInit /\ ConcInit /\ LlmInit
    /\ cacheFiles = [k \in CacheKeys |-> AbsentFile]
    /\ stored = [k \in CacheKeys |-> NoStored]
    /\ first = [k \in CacheKeys |-> NoStored]
    /\ call \in {[NoCall EXCEPT !.name = "extract_with_mistral", !.outcome = "pending",
                                !.image = i.id, !.axes = a, !.ticks = t,
                                !.avail = avail] :
                    i \in Images, a \in OcrAxes, t \in TickSets, avail \in BOOLEAN}
                \cup
                {[NoCall EXCEPT !.name = "extract_with_tesseract", !.outcome = "pending",
                                !.image = i.id, !.axes = a, !.ticks = t] :
                    i \in Images, a \in OcrAxes, t \in TickSets}
                \cup
                {[NoCall EXCEPT !.name = "extract_tick_labels", !.outcome = "pending",
                                !.image = i.id, !.axes = a] :
                    i \in Images, a \in OcrAxes}

SpecOcr == InitOcr /\ [][NextOcr]_vars

\* build_transform on every input, and apply_transform on what it returned.
NextTransform == BuildTransform \/ ApplyTransform

InitTransform ==
    /\ ApiInit /\ ConcInit /\ LlmInit
    /\ cacheFiles = [k \in CacheKeys |-> AbsentFile]
    /\ stored = [k \in CacheKeys |-> NoStored]
    /\ first = [k \in CacheKeys |-> NoStored]
    /\ call \in {[NoCall EXCEPT !.name = "build_transform", !.outcome = "pending",
                                !.tin = b] : b \in BuildInputs}

SpecTransform == InitTransform /\ [][NextTransform]_vars

\* extract_chart_llm on every response.
NextLlm == ExtractChartLlm

InitLlm ==
    /\ ApiInit /\ CoreInit /\ ConcInit
    /\ llm \in {Pending(r) : r \in Responses}

SpecLlm == InitLlm /\ [][NextLlm]_vars

\* extract_chart_llm called in every environment.
NextLlmCall == ExtractChartLlmCall

InitLlmCall ==
    /\ ApiInit /\ CoreInit /\ ConcInit
    /\ llm \in {Called(pre, r) : pre \in Preconditions, r \in CallResponses}

SpecLlmCall == InitLlmCall /\ [][NextLlmCall]_vars

-----------------------------------------------------------------------------
(* Properties of the request handlers *)

Count(seq, x) == Cardinality({i \in 1..Len(seq) : seq[i] = x})

\* The request last handled was an auto-mode /extract that reached the
\* vision extractor.
AutoTried == req.endpoint = "extract" /\ req.mode = "auto" /\ llmOut.kind # "none"

\* The extractor returned a dict without an error marker and with data.
LlmGood == llmOut.kind = "result" /\ ~llmOut.error /\ llmOut.ndata > 0

\* C1 as stated: in auto mode the vision extractor is tried first; a result
\* without an error marker and with non-empty data is returned and the CV
\* pipeline is not run; in every other case exactly one LLM_FALLBACK warning
\* is added, the pipeline then runs exactly once and the fallback warning
\* precedes every pipeline warning.
C1_AsStated ==
    AutoTried =>
        /\ calls # <<>> /\ calls[1] = "llm"
        /\ LlmGood => /\ resp = Success("llm", llmOut.ndata)
                      /\ calls = <<"llm">>
        /\ ~LlmGood => /\ Count(warnings, "LLM_FALLBACK") = 1
                       /\ warnings[1] = "LLM_FALLBACK"
                       /\ calls = <<"llm", "cv">>

\* C1 as amended: the result is returned when it also passes the response
\* model (its data entries are objects, its chart_type a string); in every
\* other case exactly one LLM_FALLBACK warning is added, ahead of every
\* pipeline warning, and the pipeline is then run exactly once, unless the
\* request's chart-type or scale token is rejected while the pipeline's
\* arguments are built, which fails the request without a pipeline run.
C1_AutoFallback ==
    AutoTried =>
        /\ calls # <<>> /\ calls[1] = "llm"
        /\ (LlmGood /\ llmOut.dictItems /\ llmOut.chartTypeStr) =>
              /\ resp = Success("llm", llmOut.ndata)
              /\ calls = <<"llm">>
              /\ cvOut = NoCv
        /\ ~(LlmGood /\ llmOut.dictItems /\ llmOut.chartTypeStr) =>
              /\ Count(warnings, "LLM_FALLBACK") = 1
              /\ warnings[1] = "LLM_FALLBACK"
              /\ cvOut.kind # "none"
              /\ cvOut.kind # "badargs" => calls = <<"llm", "cv">>
              /\ cvOut.kind = "badargs" =>
                    calls = <<"llm">> /\ resp.kind = "error" /\ resp.status = 500

C1_Witness ==
    /\ AutoTried
    /\ llmOut.kind = "result" /\ llmOut.error
    /\ calls = <<"llm", "cv">>
    /\ warnings = <<"LLM_FALLBACK", "PIPELINE", "PIPELINE">>
    /\ resp.kind = "success"

\* C2: in vision-only mode an error marker, empty data or an exception of
\* the extractor ends the request with one HTTP 500 failure, and the CV
\* pipeline is never invoked.
C2_VisionOnlyHardFailure ==
    (req.endpoint = "extract" /\ req.mode = "llm" /\ llmOut.kind # "none"
        /\ (llmOut.kind = "raise" \/ llmOut.error \/ llmOut.ndata = 0)) =>
        /\ resp.kind = "error"
        /\ resp.status = 500
        /\ Count(calls, "cv") = 0
        /\ cvOut = NoCv
        /\ warnings = <<>>

C2_Witness ==
    /\ req.endpoint = "extract" /\ req.mode = "llm"
    /\ llmOut.kind = "result" /\ ~llmOut.error /\ llmOut.ndata = 0
    /\ resp.kind = "error" /\ resp.status = 500
    /\ calls = <<"llm">>

\* C3: with mode=cv on /extract, and on every /extract/base64 request, the
\* vision-language extractor is never invoked.
C3_PipelineOnlyNoVision ==
    ((req.endpoint = "extract" /\ req.mode = "cv") \/ req.endpoint = "base64") =>
        /\ Count(calls, "llm") = 0
        /\ llmOut = NoLlm

C3_Witness ==
    /\ req.endpoint = "extract" /\ req.mode = "cv"
    /\ calls = <<"cv">>
    /\ cvOut.kind = "result"
    /\ resp.kind = "success" /\ resp.source = "cv"

-----------------------------------------------------------------------------
(* Claims about the tick-label cache *)

TickCall(c) == c.name = "extract_tick_labels"

\* The cache key a tick-label call looks up.
LookupKey(c) == <<requested_backend(c.use_mistral), c.image>>

Replayed(c, entry) ==
    /\ c.outcome = "returned"
    /\ c.hit
    /\ c.result = entry.result
    /\ c.conf = entry.conf
    /\ ~c.detect
    /\ c.remote = 0
    /\ c.ocr = 0

\* C5 as stated: once a cache-enabled call has produced and stored a result
\* under a key, every later cache-enabled call for that key returns the ticks
\* and confidence of that first storing call, with no detection and no
\* recognition.
C5_AsStated ==
    [][\A k \in CacheKeys :
         (first[k].some /\ TickCall(call') /\ call'.use_cache /\ LookupKey(call') = k)
            => Replayed(call', first[k])]_vars

\* C5: once a cache-enabled call has stored a result under a key, every later
\* cache-enabled call for that key does no detection and no recognition and
\* returns the ticks and confidence of the call that stored last under the
\* key; an entry is only ever replaced by a call that asked for the remote
\* backend with caching on, found it unavailable, recognized with the local
\* engine and stored under the local engine's key.
C5_CacheHitReplays ==
    [][\A k \in CacheKeys :
         /\ (stored[k].some /\ TickCall(call') /\ call'.use_cache /\ LookupKey(call') = k)
               => Replayed(call', stored[k])
         /\ (stored[k].some /\ stored'[k] # stored[k])
               => /\ k[1] = "tesseract"
                  /\ TickCall(call') /\ call'.use_mistral /\ call'.use_cache
                  /\ call'.backend_name = "tesseract"
                  /\ call'.image = k[2]
                  /\ call'.detect
                  /\ stored'[k].some]_vars

\* A call replays an entry that replaced the one first stored under its key.
C5_Witness ==
    /\ TickCall(call) /\ call.use_cache /\ call.hit
    /\ call.result.x # <<>>
    /\ first[LookupKey(call)].some
    /\ stored[LookupKey(call)] # first[LookupKey(call)]
    /\ call.result = stored[LookupKey(call)].result

\* C6 as stated: a lookup that finds an unreadable file, or one that is not a
\* well-formed entry, is a miss: get_cached_result returns None without
\* raising, and extract_tick_labels goes on to recognition (it detects the
\* ticks and returns unless no engine is installed).
C6_AsStated ==
    (call.found \in BrokenKinds /\ call.flt = "none") =>
        /\ call.name = "get_cached_result" =>
              call.outcome = "returned" /\ ~call.hit
        /\ TickCall(call) =>
              \/ call.exc = "ImportError"
              \/ call.outcome = "returned" /\ ~call.hit /\ call.detect

\* C7 as stated: whatever fails while an entry is stored, save_to_cache
\* returns normally, and extract_tick_labels, once it has recognized, returns
\* the recognized ticks and confidence.
C7_AsStated ==
    /\ (call.name = "save_to_cache" /\ call.flt # "none") =>
          call.outcome = "returned"
    /\ (TickCall(call) /\ call.use_cache /\ call.flt # "none" /\ call.detect) =>
          call.outcome = "returned"

-----------------------------------------------------------------------------
(* Claim about concurrent cache access *)

AllWritersDone == \A w \in Writers : wr[w].pc = "done"

\* C8 as stated: under every interleaving of save_to_cache and
\* get_cached_result calls on one key, every read returns a miss or the
\* complete payload of one single writer, and once all writers have finished
\* the file holds the payload of the writer that wrote last. (No call raises:
\* json_load turns every undecodable file into a miss.)
C8_AsStated ==
    /\ rd.kind \in {"none", "miss", "payload"}
    /\ AllWritersDone =>
          json_load(disk) = [kind |-> "payload", w |-> lastWriter]

-----------------------------------------------------------------------------
(* Claims about the vision-language response and the stage confidences *)

\* A parsed text that is no object holding a list under "data".
NotChartObject(r) == ~r.ok \/ r.val.kind # "object" \/ r.val.data # "list"

\* Malformed as the claim lists it, judged on the response text: a text that
\* is JSON is malformed when it is no object with a data list; a text that is
\* not JSON is malformed when the braces found in it hold no such object.
MalformedAsStated(text) ==
    IF json_loads(text).ok
    THEN NotChartObject(json_loads(text))
    ELSE NotChartObject(json_loads(json_match(text)))

\* Malformed, judged on what the brace matching extracts from the text.
Malformed(text) == NotChartObject(json_loads(json_match(text)))

LlmReturnedText == llm.outcome = "returned" /\ llm.shape = "text"

ErrorMarker == llm.error # "" /\ llm.conf = Zero

\* C9 as stated: every malformed response (no JSON object, invalid JSON, JSON
\* that is not an object, an object without a data list) makes
\* extract_chart_llm return an error marker with confidence 0.0.
C9_AsStated ==
    (LlmReturnedText /\ MalformedAsStated(strip_fences(llm.content))) => ErrorMarker

\* C9, amended: extract_chart_llm never raises after the response; it returns
\* an error marker with confidence 0.0 exactly when the text from the first
\* "{" to the last "}" of the response (the whole text when there is no such
\* pair) is not a JSON object holding a list under "data", or when the
\* response carries no text.
C9_MalformedGivesErrorMarker ==
    /\ llm.outcome \in {"none", "pending", "returned"}
    /\ LlmReturnedText =>
          IF Malformed(strip_fences(llm.content))
          THEN ErrorMarker
          ELSE llm.error = "" /\ llm.conf[1] >= 5
    /\ (llm.outcome = "returned" /\ llm.shape = "notext") => ErrorMarker

\* A JSON list without an object in it was answered with an error marker.
C9_Witness ==
    /\ LlmReturnedText
    /\ json_loads(strip_fences(llm.content)).ok
    /\ json_loads(strip_fences(llm.content)).val.kind = "list"
    /\ Malformed(strip_fences(llm.content))
    /\ ErrorMarker

\* C10: every confidence a stage returns lies in [0,1]: detect_plot_area,
\* detect_plot_area_contour, extract_tick_labels (fresh and cached, both
\* backends), extract_scatter_points (color and blob), extract_line_points,
\* extract_bar_data and extract_chart_llm.
C10_ConfidenceInUnitInterval ==
    call.outcome = "returned" =>
        /\ call.conf[2] > 0
        /\ 0 <= call.conf[1]
        /\ call.conf[1] <= call.conf[2]

\* A cached tick-label result came back with confidence 1.
C10_Witness ==
    /\ TickCall(call)
    /\ call.outcome = "returned"
    /\ call.hit
    /\ call.use_mistral
    /\ call.result.y # <<>>
    /\ call.conf[1] = call.conf[2]

-----------------------------------------------------------------------------
(* Claims about plot-area detection *)

CropCall(c) ==
    c.name \in {"detect_plot_area", "detect_plot_area_contour"}
      /\ c.outcome = "returned"

\* 0 <= x1 < x2 <= W and 0 <= y1 < y2 <= H
ValidBox(box, dims) ==
    /\ 0 <= box[1] /\ box[1] < box[3] /\ box[3] <= dims[1]
    /\ 0 <= box[2] /\ box[2] < box[4] /\ box[4] <= dims[2]

\* C11 as stated: for every image and every margin the crop box returned by
\* detect_plot_area, detect_plot_area_contour and _fallback_crop satisfies
\* 0 <= x1 < x2 <= W and 0 <= y1 < y2 <= H.
C11_AsStated == CropCall(call) => ValidBox(call.box, call.dims)

\* C16 as stated: when detect_plot_area rejects the line-based region because
\* a dimension is below 30% of the image, the contour detection is tried
\* next, and the fixed 10%-margin crop is used only after it failed too.
C16_AsStated ==
    (call.name = "detect_plot_area" /\ call.outcome = "returned"
        /\ call.why = "undersized" /\ call.via = "fallback")
      => call.contour_called

\* C17 as stated: with no line segments detected, detect_plot_area returns
\* the crop (0.1W, 0.1H, 0.9W, 0.9H) with confidence 0.3, and the geometric
\* fallback crop is never reported with any other confidence.
C17_AsStated ==
    /\ (call.name = "detect_plot_area" /\ call.outcome = "returned"
          /\ call.why = "few_segments")
         => /\ call.box = fallback_crop(call.dims[1], call.dims[2])
            /\ call.conf = <<3, 10>>
    /\ (CropCall(call) /\ call.via = "fallback") => call.conf = <<3, 10>>

-----------------------------------------------------------------------------
(* Claims about the pixel-to-data transform *)

\* build_transform was called and has ended.
Built == call.name \in {"build_transform", "apply_transform"} /\ call.outcome # "pending"

\* apply_transform has been applied to the transform returned.
Applied == call.name = "apply_transform"

\* The call was given a calibration mapping with two points on each axis.
ManualTwo ==
    /\ call.tin.calibration_points.keys = {"x", "y"}
    /\ Len(call.tin.calibration_points.x) = 2
    /\ Len(call.tin.calibration_points.y) = 2

\* The transformed row has the calibration value at each calibration pixel
\* it holds.
Reproduced ==
    /\ \A i \in 1..2 :
          call.applied.at[1] = call.tin.calibration_points.x[i][1] =>
              IsValue(call.applied.x, call.tin.calibration_points.x[i][2])
    /\ \A i \in 1..2 :
          call.applied.at[2] = call.tin.calibration_points.y[i][1] =>
              IsValue(call.applied.y, call.tin.calibration_points.y[i][2])

\* Points (50,0) and (550,5) on a linear x axis give slope 0.01 and
\* intercept -0.5, and pixel 250 maps to 2.0.
Scenario ==
    (call.tin.calibration_points.x = <<<<50, 0>>, <<550, 5>>>> /\ call.tin.x_scale = "linear") =>
        /\ RatEq(call.tout.x.a, <<1, 100>>)
        /\ RatEq(call.tout.x.b, <<-1, 2>>)
        /\ (Applied /\ call.applied.at[1] = 250) => IsValue(call.applied.x, 2)

\* C12 as stated: for manual calibration with two points per axis, on the
\* linear and on the log scale, the transform build_transform returns maps
\* each calibration pixel to its calibration value under apply_transform;
\* points (50,0) and (550,5) on a linear axis give slope 0.01, intercept
\* -0.5, and pixel 250 maps to 2.0.
C12_AsStated ==
    (Built /\ ManualTwo) =>
        /\ call.outcome = "returned"
        /\ Applied => Reproduced
        /\ Scenario

\* The two points of an axis are at different pixels and, on the log scale,
\* have positive values.
ProperAxis(points, scale) ==
    /\ points[1][1] # points[2][1]
    /\ scale = "log" => (points[1][2] > 0 /\ points[2][2] > 0)

\* C12 as amended: the same, for calibration points that are at two
\* different pixels of their axis and, on a log axis, have positive values.
C12_CalibrationReproduced ==
    (Built /\ ManualTwo
       /\ ProperAxis(call.tin.calibration_points.x, call.tin.x_scale)
       /\ ProperAxis(call.tin.calibration_points.y, call.tin.y_scale)) =>
        /\ call.outcome = "returned"
        /\ Applied => Reproduced
        /\ Scenario

C12_Witness ==
    /\ Applied /\ ManualTwo
    /\ call.tin.calibration_points.x = <<<<50, 1>>, <<550, 100>>>>
    /\ call.tin.x_scale = "log"
    /\ call.tin.calibration_points.y = <<<<50, 0>>, <<550, 5>>>>
    /\ call.tin.y_scale = "linear"
    /\ call.applied.at = <<550, 250>>
    /\ call.applied.x = [v |-> <<2, 1>>, scale |-> "log"]
    /\ call.applied.y = [v |-> <<2, 1>>, scale |-> "linear"]

\* C13 as stated: for every calibration mapping supplied in which the x or
\* the y axis has fewer than two points, build_transform fails with a
\* configuration error (ValueError) and returns no transform: it neither
\* goes on to the ticks nor returns part of a transform.
C13_AsStated ==
    (Built /\ ~call.tin.calibration_points.none
       /\ (Len(call.tin.calibration_points.x) < 2 \/ Len(call.tin.calibration_points.y) < 2)) =>
        /\ call.outcome = "raised"
        /\ call.exc = "ValueError"
        /\ call.tout = NoTransform

\* build_transform has returned a transform.
Returned == Built /\ call.outcome = "returned"

\* C14 as stated: the fit_error build_transform returns lies in [0, 1] for
\* every input; it is 0 for manual calibration, and on the tick path the
\* mean over the fitted axes of the error of each fit.
C14_AsStated ==
    Returned =>
        /\ RatLe(Zero, call.tout.fit_error) /\ RatLe(call.tout.fit_error, <<1, 1>>)
        /\ call.tout.path = "calibration" => call.tout.fit_error = Zero

\* The call took the OCR-tick path: no calibration mapping, or an empty
\* one, and a mapping of ticks that is not empty.
OnTicks ==
    /\ Built
    /\ (call.tin.calibration_points.none \/ call.tin.calibration_points.keys = {})
    /\ ~call.tin.ticks.none /\ call.tin.ticks.keys # {}

AxisOf(rec, ax) == IF ax = "x" THEN rec.x ELSE rec.y

ScaleOf(ax) == IF ax = "x" THEN call.tin.x_scale ELSE call.tin.y_scale

\* The line a, b is the least-squares line of the points: its residuals sum
\* to zero, and so do their products with the pixels.
LeastSquares(points, scale, axis) ==
    LET ts == targets(points, scale)
        resid == [i \in 1..Len(points) |->
                    RatSub(RatAdd(RatMul(axis.a, Int2Rat(points[i][1])), axis.b),
                           Int2Rat(ts[i]))]
    IN  /\ RatEq(RatSum(resid), Zero)
        /\ RatEq(RatSum([i \in 1..Len(points) |->
                            RatMul(Int2Rat(points[i][1]), resid[i])]), Zero)

\* The error of the line an axis was given, as lines 73-76 define it.
ErrorOf(ax) ==
    LET points == AxisOf(call.tin.ticks, ax)
    IN  axis_error([i \in 1..Len(points) |-> points[i][1]],
                   targets(points, ScaleOf(ax)), AxisOf(call.tout, ax))

Many(ax) == Len(AxisOf(call.tin.ticks, ax)) >= 2

\* C18: on the OCR-tick path every axis with fewer than two ticks gets the
\* identity transform (slope 1, intercept 0, linear) without an exception,
\* whatever scale was requested for it; an axis with two or more ticks is
\* fitted to its own ticks; fit_error is the average over the fitted axes
\* alone, and 0 when no axis was fitted.
C18_TickPath ==
    OnTicks =>
        /\ call.outcome = "returned"
        /\ \A ax \in {"x", "y"} :
              IF Many(ax)
              THEN /\ AxisOf(call.tout, ax).scale = ScaleOf(ax)
                   /\ LeastSquares(AxisOf(call.tin.ticks, ax), ScaleOf(ax),
                                   AxisOf(call.tout, ax))
              ELSE AxisOf(call.tout, ax) = [b |-> <<0, 1>>, a |-> <<1, 1>>, scale |-> "linear"]
        /\ (Many("x") /\ Many("y")) =>
              RatEq(call.tout.fit_error,
                    RatDiv(RatAdd(ErrorOf("x"), ErrorOf("y")), <<2, 1>>))
        /\ (Many("x") /\ ~Many("y")) => RatEq(call.tout.fit_error, ErrorOf("x"))
        /\ (~Many("x") /\ Many("y")) => RatEq(call.tout.fit_error, ErrorOf("y"))
        /\ (~Many("x") /\ ~Many("y")) => call.tout.fit_error = <<0, 1>>

\* One tick on an x axis requested on the log scale, three on the y axis:
\* x got the identity, y a fitted line, and fit_error is the error of y.
C18_Witness ==
    /\ OnTicks /\ call.outcome = "returned"
    /\ Len(call.tin.ticks.x) = 1 /\ call.tin.x_scale = "log"
    /\ call.tout.x = [b |-> <<0, 1>>, a |-> <<1, 1>>, scale |-> "linear"]
    /\ Len(call.tin.ticks.y) = 3
    /\ call.tout.y.a # <<0, 1>>
    /\ call.tout.fit_error[1] > 0

-----------------------------------------------------------------------------
(* Claim about the rate limiter *)

\* The grants of the minute that ends with tick t.
GrantsIn(t) ==
    Cardinality({i \in 1..Len(granted) :
                    granted[i] > t - TicksPerMinute /\ granted[i] <= t})

\* The request last handled was rejected by the rate limiter.
Rejected == resp.kind = "error" /\ resp.status = 429

\* C15: the client is granted at most 20 requests within any minute; a
\* request beyond the limit is rejected with HTTP 429 before an image is
\* read or an extraction is started, and a rejected request is not recorded
\* against the quota of the client.
C15_RateLimit ==
    /\ [](\A t \in 0..MaxNow : GrantsIn(t) <= requests_per_minute)
    /\ [](Rejected => /\ calls = <<>> /\ tempFile = "none"
                      /\ llmOut = NoLlm /\ cvOut = NoCv)
    /\ [][(now' = now /\ resp'.kind = "error" /\ resp'.status = 429) =>
             /\ granted' = granted
             /\ Len(requests') <= Len(requests)
             /\ \A i \in 1..Len(requests') : \E j \in 1..Len(requests) :
                   requests'[i] = requests[j]]_vars

\* A request is rejected in a minute whose grants began at an earlier tick,
\* and requests were granted again once those grants were a minute old.
C15_Witness ==
    /\ Rejected
    /\ now = MaxNow
    /\ GrantsIn(MaxNow) = requests_per_minute
    /\ Len(granted) > requests_per_minute
    /\ \E i \in 1..Len(granted) : granted[i] = MaxNow - 1
    /\ \E i \in 1..Len(granted) : granted[i] = MaxNow

-----------------------------------------------------------------------------
(* Claim about the confidence of the vision-language extractor *)

\* The text without a code fence or a word of prose before and after it.
Trimmed(c) ==
    LET lo == IF c # <<>> /\ c[1] \in {"p", "fence"} THEN 2 ELSE 1
        hi == IF c # <<>> /\ c[Len(c)] \in {"p", "fence"} THEN Len(c) - 1 ELSE Len(c)
    IN  SubSeq(c, lo, hi)

\* The members of the text of an object: every second token between the
\* braces, the others being commas.
IsObjectText(c) ==
    /\ Len(c) >= 3 /\ Len(c) % 2 = 1
    /\ c[1] = "{" /\ c[Len(c)] = "}"
    /\ \A i \in 2..(Len(c) - 1) :
          IF i % 2 = 0 THEN c[i] \in MemberTokens ELSE c[i] = ","

\* The "data" member that counts, the last one.
LastData(c) ==
    LET at == {i \in 1..Len(c) : c[i] \in {"D0", "D1", "D6", "Dn"}}
    IN  IF at = {} THEN "none" ELSE c[CHOOSE i \in at : \A j \in at : j <= i]

\* A well-formed response: the text of an object with a list under "data".
WellFormed(content) ==
    /\ IsObjectText(Trimmed(content))
    /\ LastData(Trimmed(content)) \in {"D0", "D1", "D6"}

Has(content, tok) == \E i \in 1..Len(content) : content[i] = tok

\* The confidence the formula gives the response, in tenths.
Expected(content) ==
    Min(10, 5 + (IF LastData(Trimmed(content)) \in {"D1", "D6"} THEN 2 ELSE 0)
              + (IF LastData(Trimmed(content)) = "D6" THEN 1 ELSE 0)
              + (IF Has(content, "Lb") THEN 1 ELSE 0)
              + (IF Has(content, "Rg") THEN 1 ELSE 0))

\* C19: for every well-formed response extract_chart_llm returns confidence
\* min(1.0, 0.5 + 0.2 [data non-empty] + 0.1 [more than 5 points]
\* + 0.1 [a label present] + 0.1 [all four range keys present]); a
\* well-formed response with an empty data list is returned without an
\* error marker and with confidence at least 0.5.
C19_VisionConfidence ==
    (llm.outcome = "returned" /\ llm.shape = "text" /\ WellFormed(llm.content)) =>
        /\ llm.error = ""
        /\ llm.conf[2] = 10
        /\ llm.conf[1] = Expected(llm.content)
        /\ llm.val.npoints = 0 => llm.conf[1] >= 5

\* An empty data list with a label was returned with confidence 0.6.
C19_Witness ==
    /\ llm.outcome = "returned"
    /\ llm.content = <<"{", "D0", ",", "Lb", "}">>
    /\ WellFormed(llm.content)
    /\ llm.error = ""
    /\ llm.conf = <<6, 10>>

-----------------------------------------------------------------------------
(* Claim about the choice of the scatter strategy *)

ScatterCall == call.name = "extract_scatter_points" /\ call.outcome = "returned"

\* The call returned the points and the confidence of the strategy.
ReturnedOf(strategy, found) ==
    /\ call.scatter.out.from = strategy
    /\ call.scatter.out.n = found.n
    /\ call.scatter.out.conf = found.conf

ColorGood ==
    /\ call.scatter.color.n > 0
    /\ 10 * call.scatter.color.conf[1] >= 7 * call.scatter.color.conf[2]

\* C20: in auto mode extract_scatter_points returns the color result without
\* running the blob strategy iff the color result is non-empty with
\* confidence >= 0.7; otherwise it runs the blob strategy and returns the
\* blob result only when the color result is empty, and the color result
\* whenever color found a point; when no strategy finds a point, and for an
\* unrecognized method, the result is empty with confidence 0.1.
C20_ScatterStrategy ==
    ScatterCall =>
        /\ call.scatter.method = "auto" =>
              /\ ~call.scatter.out.blob_called <=> ColorGood
              /\ ColorGood => ReturnedOf("color", call.scatter.color)
              /\ (~ColorGood /\ call.scatter.color.n = 0) =>
                    ReturnedOf("blob", call.scatter.blob)
              /\ (~ColorGood /\ call.scatter.color.n > 0) =>
                    ReturnedOf("color", call.scatter.color)
              /\ (call.scatter.color.n = 0 /\ call.scatter.blob.n = 0) =>
                    call.scatter.out.n = 0 /\ call.scatter.out.conf = <<1, 10>>
        /\ call.scatter.method \notin {"auto", "color", "blob"} =>
              /\ call.scatter.out.n = 0 /\ call.scatter.out.conf = <<1, 10>>
              /\ call.scatter.out.from = "none"

\* The color strategy found points with confidence 0.6: the blob strategy
\* was run, found points with a higher confidence, and the color result was
\* returned.
C20_Witness ==
    /\ ScatterCall
    /\ call.scatter.method = "auto"
    /\ call.scatter.color.n > 0 /\ call.scatter.color.conf = <<6, 10>>
    /\ call.scatter.blob.n > 0 /\ call.scatter.blob.conf = <<10, 10>>
    /\ call.scatter.out.blob_called
    /\ call.conf = <<6, 10>>

-----------------------------------------------------------------------------
(* Claims about the extraction stages *)

ConfidenceCall == call.name = "calculate_confidence" /\ call.outcome = "returned"

Clamp(x, lo, hi) == IF x < lo THEN lo ELSE IF x > hi THEN hi ELSE x

\* The terms of the formula, in tenths: the count, the coefficient of
\* variation of the areas (standard deviation over mean) and the spread.
CountTerm(f) ==
    IF 3 <= num_points(f) /\ num_points(f) <= 200 THEN 2
    ELSE IF num_points(f) > 500 THEN -2 ELSE 0

VariationTerm(f) ==
    IF variance4(f) < mean2(f) THEN 2
    ELSE IF variance4(f) > 9 * mean2(f) THEN -1 ELSE 0

SpreadTerm(f) == IF f.x_range > 50 /\ f.y_range > 50 THEN 1 ELSE 0

\* C21 as stated: for every non-empty point set the scatter confidence is
\* clamp(0.5 + (0.2 if 3 <= count <= 200, -0.2 if count > 500) + (0.2 if the
\* coefficient of variation of the areas < 0.5, -0.1 if > 1.5) + (0.1 if the
\* spread > 50 on both axes), 0.1, 1.0); it is 0.1 for an empty set and
\* always lies in [0.1, 1.0].
C21_AsStated ==
    ConfidenceCall =>
        /\ call.conf[2] = 10
        /\ 1 <= call.conf[1] /\ call.conf[1] <= 10
        /\ num_points(call.finds) = 0 => call.conf[1] = 1
        /\ num_points(call.finds) > 0 =>
              call.conf[1] = Clamp(5 + CountTerm(call.finds) + VariationTerm(call.finds)
                                     + SpreadTerm(call.finds), 1, 10)

\* C21 as amended: the same, with the term of the areas and the term of the
\* spread added only for three points or more.
C21_ScatterConfidence ==
    ConfidenceCall =>
        /\ call.conf[2] = 10
        /\ 1 <= call.conf[1] /\ call.conf[1] <= 10
        /\ num_points(call.finds) = 0 => call.conf[1] = 1
        /\ num_points(call.finds) > 0 =>
              call.conf[1] =
                Clamp(5 + CountTerm(call.finds)
                        + (IF num_points(call.finds) >= 3
                           THEN VariationTerm(call.finds) + SpreadTerm(call.finds)
                           ELSE 0), 1, 10)

\* More than 500 points whose areas vary widely: 0.5 - 0.2 - 0.1 + 0.1.
C21_Witness ==
    /\ ConfidenceCall
    /\ num_points(call.finds) > 500
    /\ VariationTerm(call.finds) = -1
    /\ SpreadTerm(call.finds) = 1
    /\ call.conf = <<3, 10>>

BarCall == call.name = "extract_bar_data" /\ call.outcome = "returned"

\* The point the claim gives a bounding box: the middle of its width and its
\* top edge, in image coordinates, with x doubled.
TopCentre(box) ==
    <<2 * (box[1] + (IF call.bars.crop.given THEN call.bars.crop.x1 ELSE 0)) + box[3],
      box[2] + (IF call.bars.crop.given THEN call.bars.crop.y1 ELSE 0)>>

Occurrences(s, x) == Cardinality({i \in 1..Len(s) : s[i] = x})

\* C22: extract_bar_data emits one (horizontal-centre, top-edge) point for
\* exactly the external contours whose bounding box is more than 10 high and
\* more than 5 wide, in ascending order of x, with confidence 0.9 when a bar
\* is emitted and 0.5 when none is.
C22_BarPoints ==
    BarCall =>
        LET kept == {i \in 1..Len(call.bars.contours) :
                        call.bars.contours[i][4] > 10 /\ call.bars.contours[i][3] > 5}
        IN  /\ Len(call.bars.points) = Cardinality(kept)
            /\ \A i \in kept :
                  Occurrences(call.bars.points, TopCentre(call.bars.contours[i]))
                    = Cardinality({j \in kept : TopCentre(call.bars.contours[j])
                                                  = TopCentre(call.bars.contours[i])})
            /\ \A i, j \in 1..Len(call.bars.points) :
                  i < j => call.bars.points[i][1] <= call.bars.points[j][1]
            /\ call.conf = (IF kept # {} THEN <<9, 10>> ELSE <<5, 10>>)

\* Two bars of a cropped image, found right to left and returned left to right.
C22_Witness ==
    /\ BarCall
    /\ Len(call.bars.contours) = 2
    /\ Len(call.bars.points) = 2
    /\ call.bars.contours[1][1] > call.bars.contours[2][1]
    /\ call.bars.points[1][1] < call.bars.points[2][1]
    /\ call.bars.crop.given
    /\ call.conf = <<9, 10>>

-----------------------------------------------------------------------------
(* Claims about tick-label recognition *)

\* A run of the remote path that has returned: _extract_with_mistral itself,
\* or extract_tick_labels recognizing with the remote backend.
RemoteRun ==
    /\ call.outcome = "returned"
    /\ \/ call.name = "extract_with_mistral"
       \/ call.name = "extract_tick_labels" /\ call.avail /\ ~call.hit

Axis(rec, ax) == IF ax = "x" THEN rec.x ELSE rec.y

\* v is the i-th smallest element of the sequence.
IsSmallest(seq, i, v) ==
    /\ \E j \in 1..Len(seq) : seq[j] = v
    /\ Cardinality({j \in 1..Len(seq) : seq[j] < v}) < i
    /\ i <= Cardinality({j \in 1..Len(seq) : seq[j] <= v})

\* C23: on the remote path each axis of the output has exactly
\* min(detected ticks, returned values) tick marks; the i-th pairs the i-th
\* smallest detected pixel with the i-th returned value, so the pixels ascend;
\* surplus ticks and surplus values are dropped and the run returns.
C23_RemoteAlignment ==
    /\ call.name = "extract_with_mistral" => call.outcome \in {"pending", "returned"}
    /\ RemoteRun =>
          \A ax \in {"x", "y"} :
            LET out == Axis(call.result, ax)
                detected == Axis(call.ticks, ax)
                values == Axis(call.values, ax)
            IN  /\ Len(out) = Min(Len(detected), Len(values))
                /\ \A i \in 1..Len(out) :
                      /\ IsSmallest(detected, i, out[i].pixel)
                      /\ out[i].value = values[i]
                /\ \A i \in 1..(Len(out) - 1) : out[i].pixel <= out[i + 1].pixel

\* A run in which two x ticks detected right to left got two values, and the
\* y axis had more values than ticks or more ticks than values.
C23_Witness ==
    /\ RemoteRun
    /\ Len(call.result.x) = 2
    /\ call.ticks.x[1] > call.ticks.x[2]
    /\ Len(call.values.y) # Len(call.ticks.y)
    /\ Len(call.result.y) >= 1

\* A recognition run of either backend that has returned what it recognized.
RecognitionRun ==
    /\ call.outcome = "returned"
    /\ \/ call.name \in {"extract_with_mistral", "extract_with_tesseract"}
       \/ call.name = "extract_tick_labels" /\ ~call.hit

\* The confidence is the number of tick marks in the output over the number
\* of ticks detected on both axes, and 0.0 when none was detected.
MatchedOverTotal ==
    LET total == Len(call.ticks.x) + Len(call.ticks.y)
        matched == Len(call.result.x) + Len(call.result.y)
    IN  IF total = 0 THEN call.conf = Zero
        ELSE call.conf[2] # 0 /\ call.conf[1] * total = matched * call.conf[2]

\* C24: for both backends ocr_confidence is (tick marks output) / (ticks
\* detected on both axes), 0 when no tick was detected; a tick whose label
\* window is empty counts in the denominator.
C24_AsStated == RecognitionRun => MatchedOverTotal

\* A finished call of the remote path or of extract_tick_labels.
OcrCall ==
    /\ call.name \in {"extract_with_mistral", "extract_tick_labels"}
    /\ call.outcome # "pending"

\* The requests of the run sent for a strip ("batch" for the batched one).
SentFor(strip) == {i \in 1..Len(call.sent) : call.sent[i].strip = strip}

\* The i-th request of the run comes after a batched request that failed.
AfterFailedBatch(i) ==
    \E j \in 1..(i - 1) : call.sent[j].strip = "batch" /\ ~call.sent[j].ok

\* The strip of exactly one axis is empty.
OneStrip ==
    \E image \in Images :
        /\ image.id = call.image
        /\ x_strip_empty(image, call.axes) # y_strip_empty(image, call.axes)

\* At most one batched request and at most one request for each strip.
NeverRepeated == \A strip \in {"batch", "x", "y"} : Cardinality(SentFor(strip)) <= 1

\* Without a client the remote path sends nothing and yields no tick;
\* extract_tick_labels then recognizes locally and sends nothing either.
Unavailable ==
    /\ (call.name = "extract_with_mistral" /\ ~call.avail)
          => call.sent = <<>> /\ call.result = EmptyTicks /\ call.outcome = "returned"
    /\ (call.name = "extract_tick_labels" /\ ~call.avail) => call.sent = <<>>

\* extract_tick_labels recognizing with the remote backend returns; the one
\* thing it raises is the ImportError of the missing local engine.
NoRemoteRaise ==
    call.name = "extract_tick_labels" =>
        /\ call.avail => call.outcome = "returned"
        /\ call.outcome = "raised" => call.exc = "ImportError" /\ call.sent = <<>>

\* C25 as stated: at most one batched request; a request for a single strip
\* only after the batched request has failed, at most once each; nothing
\* sent and no tick without a client; no raise from a remote failure.
C25_AsStated ==
    OcrCall =>
        /\ NeverRepeated
        /\ \A i \in SentFor("x") \cup SentFor("y") : AfterFailedBatch(i)
        /\ Unavailable
        /\ NoRemoteRaise

\* C25: at most one batched request and at most one request for each strip;
\* a request for a single strip follows the failed batched request, or is the
\* only request of a run in which the strip of the other axis is empty;
\* nothing is sent and no tick recognized remotely without a client; no
\* remote failure raises out of extract_tick_labels.
C25_RemoteRequests ==
    OcrCall =>
        /\ NeverRepeated
        /\ \A i \in SentFor("x") \cup SentFor("y") :
              \/ AfterFailedBatch(i)
              \/ OneStrip /\ Len(call.sent) = 1
        /\ SentFor("batch") # {} => ~OneStrip /\ call.sent[1].strip = "batch"
        /\ Unavailable
        /\ NoRemoteRaise

\* extract_tick_labels whose batched request failed, the request for the x
\* strip was answered and the one for the y strip failed.
C25_Witness ==
    /\ OcrCall /\ call.name = "extract_tick_labels" /\ call.outcome = "returned"
    /\ Len(call.sent) = 3
    /\ ~call.sent[1].ok /\ call.sent[2].ok /\ ~call.sent[3].ok
    /\ call.result.x # <<>> /\ call.result.y = <<>>

-----------------------------------------------------------------------------
(* Claims about the temporary file of a request *)

\* A request to either endpoint has completed.
Completed == resp.kind # "none"

\* C26: when a request to /extract or /extract/base64 has completed, with a
\* result or with an error, no temporary image file it created is left.
C26_AsStated == Completed => tempFile # "exists"

-----------------------------------------------------------------------------
(* Claims about extract_tick_labels and the cache *)

\* A cache-enabled extract_tick_labels call that missed and has returned.
Missed ==
    /\ TickCall(call) /\ call.outcome = "returned"
    /\ call.use_cache /\ ~call.hit

\* Looking the key of the call up now gives the result the call returned.
RepeatHits ==
    LET got == get_cached_result(cacheFiles[LookupKey(call)], "none")
    IN  /\ ~got.raised /\ cached_truthy(got)
        /\ got.json.kind = "entry"
        /\ got.json.result = call.result
        /\ got.json.confidence = call.conf

\* C27: a cache-enabled call that misses stores its result under the key it
\* looked up, so that repeating it hits the entry; also when the remote
\* backend was requested, is unavailable, and the local engine recognized.
C27_AsStated == Missed => RepeatHits

\* The key of the backend that recognized in the call.
RecognizedKey == <<IF call.avail THEN "mistral" ELSE "tesseract", call.image>>

\* The file under the key holds the result and confidence of the call.
StoredUnder(k) ==
    /\ cacheFiles[k].kind = "entry"
    /\ cacheFiles[k].result = call.result
    /\ cacheFiles[k].confidence = call.conf

\* C27: a cache-enabled call that misses stores its result under the key of
\* the image and the backend that recognized. That is the key it looked up,
\* and repeating the call hits the entry, unless the remote backend was
\* requested and is unavailable: then the result is stored under the key of
\* the local engine and the key looked up still misses.
C27_MissStores ==
    Missed =>
        /\ StoredUnder(RecognizedKey)
        /\ RepeatHits <=> (call.avail \/ ~call.use_mistral)
        /\ (call.use_mistral /\ ~call.avail)
              => ~cached_truthy(get_cached_result(cacheFiles[LookupKey(call)], "none"))

\* The remote backend was requested and is unavailable; the ticks the local
\* engine read are stored under its key, not under the key looked up.
C27_Witness ==
    /\ Missed /\ call.use_mistral /\ ~call.avail
    /\ call.result.x # <<>>
    /\ StoredUnder(<<"tesseract", call.image>>)
    /\ cacheFiles[LookupKey(call)].kind = "absent"

\* What recognition gives for the image, axes and backend of the call and the
\* answers of the remote service at the time of the call.
Recognized(c) ==
    CHOOSE rec \in
        {IF c.avail
         THEN extract_with_mistral(image, c.axes, detect_ticks(image, c.axes),
                                   c.avail, c.rm)
         ELSE extract_with_tesseract(image, c.axes, detect_ticks(image, c.axes)) :
            image \in {i \in Images : i.id = c.image}} : TRUE

\* C28: a cache-enabled extract_tick_labels call returns the ticks and the
\* confidence that recognition gives for its own image, axes and backend and
\* the answers of the backend, whatever calls preceded it.
C28_AsStated ==
    (TickCall(call) /\ call.outcome = "returned" /\ call.use_cache)
        => /\ call.result = Recognized(call).result
           /\ call.conf = Recognized(call).conf

\* C29: a call with use_cache=False looks nothing up and saves nothing: the
\* cache files are the same after it, and what it returns is what
\* recognition gives for its arguments, whatever the cache holds.
C29_NoCacheNoEffect ==
    [][(TickCall(call') /\ ~call'.use_cache)
          => /\ cacheFiles' = cacheFiles
             /\ ~call'.hit /\ call'.found = ""
             /\ call'.outcome = "returned"
                   => /\ call'.detect
                      /\ call'.result = Recognized(call').result
                      /\ call'.conf = Recognized(call').conf
             /\ call'.outcome = "raised" => call'.exc = "ImportError"]_vars

\* A call without the cache returned its own ticks while the cache held,
\* under its key, an entry with other ticks.
C29_Witness ==
    /\ TickCall(call) /\ ~call.use_cache /\ call.outcome = "returned"
    /\ call.result.x # <<>>
    /\ cacheFiles[LookupKey(call)].kind = "entry"
    /\ cacheFiles[LookupKey(call)].result # call.result

-----------------------------------------------------------------------------
(* Claims about the requests of extract_chart_llm *)

LlmFinished == llm.outcome \in {"returned", "raised"}

\* The request failed, or its response has no text or no chart object.
LlmFailure ==
    \/ llm.shape \in {"request_failed", "notext"}
    \/ llm.shape = "text" /\ Malformed(strip_fences(llm.content))

\* C30: extract_chart_llm sends at most one request in a call; it raises
\* exactly when the credential or the client package is missing or the image
\* cannot be read or encoded, and then it has sent no request; once the
\* request is sent it returns, and a failed request or an unusable response
\* comes back as an error marker with confidence 0.0.
C30_SingleRequest ==
    LlmFinished =>
        /\ llm.requests <= 1
        /\ llm.outcome = "raised" <=> llm.pre # "ok"
        /\ llm.outcome = "raised"
              => /\ llm.requests = 0
                 /\ llm.exc = (IF llm.pre = "no_package" THEN "ImportError"
                               ELSE "ValueError")
        /\ llm.outcome = "returned"
              => /\ llm.requests = 1
                 /\ llm.exc = ""
                 /\ LlmFailure => ErrorMarker

\* The one request of a call failed and the call returned an error marker.
C30_Witness ==
    /\ llm.outcome = "returned" /\ llm.pre = "ok"
    /\ llm.shape = "request_failed"
    /\ llm.requests = 1
    /\ ErrorMarker
====
